---- MODULE Spec2Model ----
(***************************************************************************)
(* Task lifecycle of the multi-agent workflow service.                     *)
(*                                                                         *)
(* Processes: the API request handlers (start_task, approve_task), the     *)
(* Celery worker processes running execute_workflow / resume_workflow,     *)
(* the task table (PostgreSQL, read committed), the Celery broker queue,   *)
(* the Redis workspace and the per-process LangGraph MemorySaver.          *)
(***************************************************************************)
EXTENDS Integers, Sequences, FiniteSets, Bags, TLC

\* ---------------------------------------------------------------- bounds
NumWorkers == 2      \* Celery worker processes
MaxApprove == 2      \* approve requests issued by clients
MaxFailures == 1     \* engine invocations that raise (collaborator failures)
MaxRunFailures == 4  \* engine and store failures in the run-side specification
NumChans == 2        \* WebSocket connections opened by observers
NumBroadcasts == 2   \* calls of broadcast_to_task
MaxPings == 1        \* "ping" messages answered per connection
MaxOps == 3          \* workspace operations in the scratchpad specification
MaxTopics == 2       \* topics in the analysis handed to the research stage
MaxCalls == 4        \* calls of search_general and reset_flaky_counts
MaxExecs == 2        \* executions of the research stage from its entry state
MaxDbOps == 4        \* operations of database/crud.py and commits

\* ------------------------------------------------------ program constants
max_retries == 3

TaskIds == {"t1"}
Workers == 1..NumWorkers
Feedbacks == {"nope"}
Drafts == {"d1"}
NULL == "NULL"

PENDING == "PENDING"
RUNNING == "RUNNING"
RESEARCHING == "RESEARCHING"
WRITING == "WRITING"
AWAITING_APPROVAL == "AWAITING_APPROVAL"
RESUMED == "RESUMED"
COMPLETED == "COMPLETED"
FAILED == "FAILED"

TaskStatus ==
  {PENDING, RUNNING, RESEARCHING, WRITING, AWAITING_APPROVAL, RESUMED, COMPLETED, FAILED}

VARIABLES
  db,         \* committed rows of table tasks, by id
  sub,        \* progress of the start_task request of each id
  queue,      \* commands in the broker (a bag)
  wk,         \* state of each worker process
  ckpt,       \* MemorySaver of each worker process, by thread id
  workspace,  \* Redis workspace keys that exist
  apr,        \* approve_task requests between their check and their UPDATE (a bag)
  issued,     \* number of approve_task requests received
  resp,       \* the last response of approve_task
  hist,       \* per task: what approve_task has accepted and answered so far,
              \* and the fresh engine runs and their outcomes
  clock,      \* wall clock used for log timestamps
  failures    \* engine invocations that raised so far

\* the observer side (api/websocket.py)
VARIABLES
  active_connections,  \* ConnectionManager.active_connections: task id -> list
  chan,                \* each WebSocket and the endpoint coroutine serving it
  bc                   \* each call of broadcast_to_task

core == <<db, sub, queue, wk, ckpt, workspace, apr, issued, resp, hist, clock, failures>>

observers == <<active_connections, chan, bc>>

\* the scratchpad (shared/redis_client.py)
VARIABLES
  redis,   \* the Redis keys and their string values
  rop      \* the last workspace operation, its argument and what it returned

scratchpad == <<redis, rop>>

\* single stages of the graph (agents/)
VARIABLES
  rs,   \* an execution of research_node from the analysis on
  an,   \* a call of PromptAnalyzer.analyze
  wr    \* an execution of writing_node

stages == <<rs, an, wr>>

\* the graph, the flaky research tool and the record store taken alone
VARIABLES
  gr,     \* an execution of the compiled graph for one thread id
  tool,   \* _flaky_call_count of agents/tools.py and the last call of search_general
  dbop    \* the last operation of database/crud.py and what it returned

units == <<gr, tool, dbop>>

\* the state outside the task lifecycle
side == <<observers, scratchpad, stages, units>>

vars == <<core, side>>

\* ------------------------------------------------------------ dictionaries
EmptyDict == [k \in {} |-> NULL]

DictGet(d, k, default) == IF k \in DOMAIN d THEN d[k] ELSE default

DictUpdate(d, patch) ==
  [k \in (DOMAIN d) \cup (DOMAIN patch) |-> IF k \in DOMAIN patch THEN patch[k] ELSE d[k]]

\* ------------------------------------------------------------- task table
NoRow == [exists |-> FALSE, status |-> PENDING, result |-> NULL, agent_logs |-> << >>]

create_task == [exists |-> TRUE, status |-> PENDING, result |-> NULL, agent_logs |-> << >>]

get_task(t) == db[t]

update_task_status_Upsert(row, status) ==
  [row EXCEPT !.exists = TRUE, !.status = status]

update_task_status(row, status) ==
  IF ~row.exists THEN row ELSE [row EXCEPT !.status = status]

update_task_result(row, result, status) ==
  IF ~row.exists THEN row ELSE [row EXCEPT !.result = result, !.status = status]

_update_task_db_Mirror(row, status, result) ==
  IF ~row.exists THEN row
  ELSE [row EXCEPT !.status = IF status = AWAITING_APPROVAL THEN WRITING ELSE status]

_update_task_db(row, status, result) ==
  IF result # NULL
    THEN update_task_result(row, result, status)
    ELSE update_task_status(row, status)

LogEntry(agent, action, ts) == [agent |-> agent, action |-> action, timestamp |-> ts]

append_agent_log_Touch(row, readLogs, entry) ==
  IF ~row.exists THEN row
  ELSE [row EXCEPT !.agent_logs = Append(readLogs, entry), !.status = RUNNING]

\* the UPDATE issued by append_agent_log: the list read earlier plus the entry
append_agent_log(row, readLogs, entry) ==
  IF ~row.exists THEN row ELSE [row EXCEPT !.agent_logs = Append(readLogs, entry)]

\* ---------------------------------------------------------------- commands
RunCmd(t, retries) == [kind |-> "run", task_id |-> t, retries |-> retries,
                       approved |-> FALSE, feedback |-> ""]

ResumeCmd(t, approved, feedback) ==
  [kind |-> "resume", task_id |-> t, retries |-> 0,
   approved |-> approved, feedback |-> feedback]

NoCmd == [kind |-> "none", task_id |-> "t1", retries |-> 0,
          approved |-> FALSE, feedback |-> ""]

Publish(q, cmds) == q (+) SetToBag(cmds)

IdleWorker == [pc |-> "idle", cmd |-> NoCmd, reading |-> FALSE, snap |-> << >>,
               res |-> EmptyDict]

NoCheckpoint == [next |-> "none", values |-> EmptyDict]

NoResp == [code |-> 0, task_id |-> "t1", status |-> NULL]

NoHist == [accepted |-> 0, approved |-> 0, resumes |-> 0, rejected |-> {},
           runs |-> 0, suspended |-> 0, raised |-> 0]

\* the lifecycle state after start-up
CoreInit ==
  /\ db = [t \in TaskIds |-> NoRow]
  /\ sub = [t \in TaskIds |-> "idle"]
  /\ queue = EmptyBag
  /\ wk = [w \in Workers |-> IdleWorker]
  /\ ckpt = [w \in Workers |-> [t \in TaskIds |-> NoCheckpoint]]
  /\ workspace = {}
  /\ apr = EmptyBag
  /\ issued = 0
  /\ resp = NoResp
  /\ hist = [t \in TaskIds |-> NoHist]
  /\ clock = 0
  /\ failures = 0

\* ----------------------------------------------------- observers: values
WsTasks == {"t1", "t2"}
Chans == 1..NumChans
Bcs == 1..NumBroadcasts

\* WebSocketState
CONNECTING == "CONNECTING"
CONNECTED == "CONNECTED"
DISCONNECTED == "DISCONNECTED"

\* a WebSocket nobody has opened yet.  pc is the position of
\* websocket_endpoint, peer tells whether the client is still there, inbox is
\* what the client has received, reg / unreg record that connect / disconnect
\* have completed for it
NoChan == [pc |-> "new", task |-> "t1", client_state |-> CONNECTING, peer |-> FALSE,
           inbox |-> << >>, reg |-> FALSE, unreg |-> FALSE]

\* a broadcast_to_task call that has not started.  connections is its
\* snapshot, i the position of its loop, disconnected its list of failed
\* channels, delivered the channels its send_json reached
NoBroadcast == [pc |-> "idle", task |-> "t1", msg |-> EmptyDict,
                connections |-> << >>, i |-> 1,
                disconnected |-> << >>, delivered |-> << >>]

\* ConnectionManager.__init__ and no connection yet
ObserversInit ==
  /\ active_connections = EmptyDict
  /\ chan = [c \in Chans |-> NoChan]
  /\ bc = [b \in Bcs |-> NoBroadcast]

\* ----------------------------------------------------- scratchpad: values
\* no workspace operation yet
NoOp == [n |-> 0, op |-> "none", task_id |-> "t1", data |-> EmptyDict,
         prev |-> [found |-> FALSE, data |-> EmptyDict], before |-> EmptyDict]

\* an empty Redis
ScratchpadInit ==
  /\ redis = EmptyDict
  /\ rop = NoOp

\* --------------------------------------------------------- stages: values
\* research_node not entered
NoResearch == [pc |-> "idle", topics |-> << >>, i |-> 1, log |-> << >>,
               research_results |-> EmptyDict, rounds |-> << >>]

\* analyze not called
NoAnalysis == [pc |-> "idle", prompt |-> {}, llm |-> EmptyDict, ret |-> EmptyDict,
               fallback |-> FALSE]

\* writing_node not entered
NoWriting == [pc |-> "idle", state |-> EmptyDict, writer |-> EmptyDict,
              formatted_prompt |-> EmptyDict, ret |-> EmptyDict,
              read |-> FALSE, called |-> FALSE]

StagesInit ==
  /\ rs = NoResearch
  /\ an = NoAnalysis
  /\ wr = NoWriting

\* ---------------------------------------------------------- units: values
\* the graph not invoked
NoGraph == [pc |-> "idle"]

\* the queries search_general is called with: two that contain
\* "__FLAKY_TEST__" and one that does not
Queries == { [flaky |-> TRUE, text |-> "query1"], [flaky |-> TRUE, text |-> "query2"],
            [flaky |-> FALSE, text |-> "test query"] }

\* no call of search_general yet: _flaky_call_counts = {}
NoTool == [counts |-> EmptyDict, since |-> [q \in Queries |-> 0], calls |-> 0,
           last |-> [query |-> [flaky |-> FALSE, text |-> "none"], k |-> 0,
                     ret |-> EmptyDict]]

\* no record-store operation yet
NoDbOp == [table |-> [k \in {} |-> NULL], pending |-> [k \in {} |-> NULL], n |-> 0,
           last |-> [op |-> "none", task_id |-> NULL, ret |-> [found |-> FALSE],
                     before |-> [k \in {} |-> NULL],
                     flushed |-> [k \in {} |-> NULL]]]

UnitsInit ==
  /\ gr = NoGraph
  /\ tool = NoTool
  /\ dbop = NoDbOp

SideInit == ObserversInit /\ ScratchpadInit /\ StagesInit /\ UnitsInit

Init == CoreInit /\ SideInit

\* ------------------------------------------------------------ API: submit
\* start_task: create_task flushes the INSERT in the request's session and
\* execute_workflow.delay() publishes the command; the handler returns
\* 202 / PENDING.  The row is not visible to other sessions yet.
StartTask(t) ==
  /\ sub[t] = "idle"
  /\ sub' = [sub EXCEPT ![t] = "created"]
  /\ queue' = Publish(queue, {RunCmd(t, 0)})
  /\ UNCHANGED <<db, wk, ckpt, workspace, apr, issued, resp, hist, clock, failures, side>>

\* get_db: the session commits after the handler has returned
StartCommit(t) ==
  /\ sub[t] = "created"
  /\ sub' = [sub EXCEPT ![t] = "committed"]
  /\ db' = [db EXCEPT ![t] = create_task]
  /\ UNCHANGED <<queue, wk, ckpt, workspace, apr, issued, resp, hist, clock, failures, side>>

\* ----------------------------------------------------------- API: approve
\* approve_task without its status check
AwaitingCheck_Always(row) == TRUE

\* the status check of approve_task
AwaitingCheck(row) == row.status = AWAITING_APPROVAL

\* approve_task answering an unknown id like a task that is not awaiting
ApproveErrorCode_No404(task) ==
  IF ~AwaitingCheck(task) THEN 400 ELSE 200

\* the HTTPException approve_task raises, or 200 when it raises none
ApproveErrorCode(task) ==
  IF ~task.exists THEN 404
  ELSE IF ~AwaitingCheck(task) THEN 400
  ELSE 200

\* the commands approve_task publishes for an accepted request
ApproveEnqueue(t, approved, feedback) ==
  IF approved THEN {ResumeCmd(t, approved, feedback)} ELSE {}

\* new_status of approve_task
ApproveStatus(approved) == IF approved THEN RESUMED ELSE FAILED

\* approve_task up to and including resume_workflow.delay(): the row is read,
\* 404 / 400 are raised, the resume command is published
ApproveRead ==
  /\ issued < MaxApprove
  /\ issued' = issued + 1
  /\ \E t \in TaskIds, approved \in BOOLEAN, fb \in Feedbacks :
       LET task == get_task(t) IN
       IF ApproveErrorCode(task) = 200
         THEN /\ apr' = apr (+) SetToBag({[task_id |-> t, approved |-> approved,
                                          feedback |-> fb,
                                          new_status |-> ApproveStatus(approved)]})
              /\ queue' = Publish(queue, ApproveEnqueue(t, approved, fb))
              /\ hist' = [hist EXCEPT ![t].accepted = @ + 1,
                                      ![t].approved = @ +
                                         (IF approved /\ task.status = AWAITING_APPROVAL
                                            THEN 1 ELSE 0),
                                      ![t].resumes = @ + Cardinality(ApproveEnqueue(t, approved, fb))]
              /\ resp' = resp
         ELSE /\ resp' = [code |-> ApproveErrorCode(task), task_id |-> t, status |-> NULL]
              /\ UNCHANGED <<apr, queue, hist>>
  /\ UNCHANGED <<db, sub, wk, ckpt, workspace, clock, failures, side>>

\* approve_task from update_task_status on: the UPDATE, the 200 response and
\* the commit of the request's session
ApproveWrite ==
  \E a \in BagToSet(apr) :
    /\ apr' = apr (-) SetToBag({a})
    /\ db' = [db EXCEPT ![a.task_id] = update_task_status(@, a.new_status)]
    /\ resp' = [code |-> 200, task_id |-> a.task_id, status |-> a.new_status]
    /\ hist' = [hist EXCEPT ![a.task_id].rejected =
                  IF a.approved THEN @ ELSE @ \cup {a.feedback}]
    /\ UNCHANGED <<sub, queue, wk, ckpt, workspace, issued, clock, failures, side>>

\* ------------------------------------------------------------ the workers
\* a worker process takes a command from the broker
TakeCommand(w) ==
  /\ wk[w].pc = "idle"
  /\ \E c \in BagToSet(queue) :
       /\ queue' = queue (-) SetToBag({c})
       /\ wk' = [wk EXCEPT ![w] = [IdleWorker EXCEPT !.cmd = c,
                    !.pc = IF c.kind = "run" THEN "e_running" ELSE "r_resumed"]]
  /\ UNCHANGED <<db, sub, ckpt, workspace, apr, issued, resp, hist, clock, failures, side>>

\* get_interrupt_info
get_interrupt_info(result) == "interrupt" \in DOMAIN result

\* the _append_log calls of execute_workflow and resume_workflow, by position
LogPcs == {"e_log1", "e_log2", "e_log3", "e_log4", "e_log5", "r_log1", "r_log2"}

LogAgent(pc) == CASE pc = "e_log2" -> "ResearchAgent"
                  [] pc = "e_log3" -> "WritingAgent"
                  [] OTHER -> "Orchestrator"

LogAction(pc, cmd) ==
  CASE pc = "e_log1" -> "Starting workflow execution"
    [] pc = "e_log2" -> "Searching for LangGraph features"
    [] pc = "e_log3" -> "Drafting comparison summary"
    [] pc = "e_log4" -> "Awaiting human approval"
    [] pc = "e_log5" -> "Workflow completed"
    [] pc = "r_log1" -> IF cmd.approved THEN "Human approval received: Approved"
                                        ELSE "Human approval received: Rejected"
    [] pc = "r_log2" -> "Workflow completed"

\* the statement that follows each _append_log call
LogNext(pc) ==
  CASE pc = "e_log1" -> "e_log2"
    [] pc = "e_log2" -> "e_engine"
    [] pc = "e_log3" -> "e_outcome"
    [] pc = "e_log4" -> "idle"
    [] pc = "e_log5" -> "idle"
    [] pc = "r_log1" -> "r_engine"
    [] pc = "r_log2" -> "idle"

Continue(worker, pc) ==
  IF pc = "idle" THEN IdleWorker
  ELSE [worker EXCEPT !.pc = pc, !.reading = FALSE, !.snap = << >>]

\* append_agent_log, first half: get_task in a new session
LogRead(w) ==
  /\ wk[w].pc \in LogPcs
  /\ ~wk[w].reading
  /\ LET task == get_task(wk[w].cmd.task_id) IN
       IF task.exists
         THEN wk' = [wk EXCEPT ![w].reading = TRUE, ![w].snap = task.agent_logs]
         ELSE wk' = [wk EXCEPT ![w] = Continue(@, LogNext(@.pc))]
  /\ UNCHANGED <<db, sub, queue, ckpt, workspace, apr, issued, resp, hist, clock, failures, side>>

\* append_agent_log, second half: the UPDATE of agent_logs and the commit
LogWrite(w) ==
  /\ wk[w].pc \in LogPcs
  /\ wk[w].reading
  /\ db' = [db EXCEPT ![wk[w].cmd.task_id] =
              append_agent_log(@, wk[w].snap,
                 LogEntry(LogAgent(wk[w].pc), LogAction(wk[w].pc, wk[w].cmd), clock))]
  /\ clock' = clock + 1
  /\ wk' = [wk EXCEPT ![w] = Continue(@, LogNext(@.pc))]
  /\ UNCHANGED <<sub, queue, ckpt, workspace, apr, issued, resp, hist, failures, side>>

\* ------------------------------------------------------- execute_workflow
ExecStartStatus_Writing == WRITING

\* the status execute_workflow records before it calls the engine
ExecStartStatus == RUNNING

\* run_async(_update_task_db(task_id, TaskStatus.RUNNING))
ExecSetRunning(w) ==
  /\ wk[w].pc = "e_running"
  /\ db' = [db EXCEPT ![wk[w].cmd.task_id] = _update_task_db(@, ExecStartStatus, NULL)]
  /\ wk' = [wk EXCEPT ![w].pc = "e_log1"]
  /\ UNCHANGED <<sub, queue, ckpt, workspace, apr, issued, resp, hist, clock, failures, side>>

\* the state the graph holds when approval_node interrupts a fresh run
SuspendedValues(t, d) == [task_id |-> t, status |-> WRITING, draft |-> d]

\* the descriptor passed to interrupt()
approval_descriptor(values) ==
  [question |-> "Do you approve this draft?",
   task_id |-> DictGet(values, "task_id", ""),
   draft |-> DictGet(values, "draft", "")]

\* the outcomes of graph.invoke(initial_state): research, writing, then the
\* interrupt of approval_node ("interrupt"), or an exception raised in
\* research_node before save_to_workspace ("raise_research") or in
\* writing_node after it ("raise_writing")
FreshOutcomes == {"interrupt", "raise_research", "raise_writing"}

\* run_workflow(task_id, prompt) in the process of worker w; at most cap
\* invocations raise
EngineRun(w, cap) ==
  /\ wk[w].pc = "e_engine"
  /\ LET t == wk[w].cmd.task_id IN
     \E o \in FreshOutcomes, d \in Drafts :
       CASE o = "interrupt" ->
              /\ workspace' = workspace \cup {t}
              /\ ckpt' = [ckpt EXCEPT ![w][t] =
                            [next |-> "approval", values |-> SuspendedValues(t, d)]]
              /\ wk' = [wk EXCEPT ![w].pc = "e_log3",
                          ![w].res = DictUpdate(SuspendedValues(t, d),
                              [interrupt |-> approval_descriptor(SuspendedValues(t, d))])]
              /\ failures' = failures
              /\ hist' = [hist EXCEPT ![t].runs = @ + 1, ![t].suspended = @ + 1]
         [] o = "raise_research" ->
              /\ failures < cap
              /\ d = "d1"
              /\ workspace' = workspace
              /\ ckpt' = [ckpt EXCEPT ![w][t] =
                            [next |-> "research",
                             values |-> [task_id |-> t, status |-> RUNNING]]]
              /\ wk' = [wk EXCEPT ![w].pc = "e_except"]
              /\ failures' = failures + 1
              /\ hist' = [hist EXCEPT ![t].runs = @ + 1, ![t].raised = @ + 1]
         [] o = "raise_writing" ->
              /\ failures < cap
              /\ d = "d1"
              /\ workspace' = workspace \cup {t}
              /\ ckpt' = [ckpt EXCEPT ![w][t] =
                            [next |-> "writing",
                             values |-> [task_id |-> t, status |-> RESEARCHING]]]
              /\ wk' = [wk EXCEPT ![w].pc = "e_except"]
              /\ failures' = failures + 1
              /\ hist' = [hist EXCEPT ![t].runs = @ + 1, ![t].raised = @ + 1]
  /\ UNCHANGED <<db, sub, queue, apr, issued, resp, clock, side>>

\* run_workflow as execute_workflow calls it (celery_app.py line 95)
ExecEngine(w) == EngineRun(w, MaxFailures)

\* execute_workflow after the WritingAgent log entry: the interrupt check and
\* the status write of the branch taken
ExecOutcome(w) ==
  /\ wk[w].pc = "e_outcome"
  /\ LET t == wk[w].cmd.task_id
         result == wk[w].res
         final_status == DictGet(result, "status", COMPLETED)
         final_result == DictGet(result, "result", "")
     IN
       IF get_interrupt_info(result)
         THEN /\ db' = [db EXCEPT ![t] = _update_task_db(@, AWAITING_APPROVAL, NULL)]
              /\ wk' = [wk EXCEPT ![w].pc = "e_log4"]
       ELSE IF final_status = COMPLETED
         THEN /\ db' = [db EXCEPT ![t] = _update_task_db(@, COMPLETED, final_result)]
              /\ wk' = [wk EXCEPT ![w].pc = "e_log5"]
       ELSE /\ db' = [db EXCEPT ![t] = _update_task_db(@, FAILED, DictGet(result, "error", ""))]
            /\ wk' = [wk EXCEPT ![w] = IdleWorker]
  /\ UNCHANGED <<sub, queue, ckpt, workspace, apr, issued, resp, hist, clock, failures, side>>

\* the commands the except branch of execute_workflow publishes: self.retry
RetryCommands(cmd) ==
  IF cmd.retries < max_retries THEN {RunCmd(cmd.task_id, cmd.retries + 1)} ELSE {}

\* the except branch of execute_workflow
ExecExcept(w) ==
  /\ wk[w].pc = "e_except"
  /\ db' = [db EXCEPT ![wk[w].cmd.task_id] = _update_task_db(@, FAILED, NULL)]
  /\ queue' = Publish(queue, RetryCommands(wk[w].cmd))
  /\ wk' = [wk EXCEPT ![w] = IdleWorker]
  /\ UNCHANGED <<sub, ckpt, workspace, apr, issued, resp, hist, clock, failures, side>>

\* -------------------------------------------------------- resume_workflow
\* run_async(_update_task_db(task_id, TaskStatus.RESUMED))
ResumeSetResumed(w) ==
  /\ wk[w].pc = "r_resumed"
  /\ db' = [db EXCEPT ![wk[w].cmd.task_id] = _update_task_db(@, RESUMED, NULL)]
  /\ wk' = [wk EXCEPT ![w].pc = "r_log1"]
  /\ UNCHANGED <<sub, queue, ckpt, workspace, apr, issued, resp, hist, clock, failures, side>>

\* the resume values that are not mappings, and bool() of them
Scalars == {"True", "False", "'yes'", "''", "1", "0"}

bool(scalar) == scalar \in {"True", "'yes'", "1"}

\* a resume value that is not a dict
Scalar(s) == [scalar |-> s]

isinstance_dict(approval_response) == "scalar" \notin DOMAIN approval_response

approval_node_Finalize(approval_response) ==
  [goto |-> "finalize",
   update |-> [approved |-> TRUE, feedback |-> DictGet(approval_response, "feedback", "")]]

\* approval_node after the interrupt returns approval_response: the Command
\* it returns
approval_node(approval_response) ==
  LET approved == IF isinstance_dict(approval_response)
                    THEN DictGet(approval_response, "approved", FALSE)
                    ELSE bool(approval_response.scalar)
      feedback == IF isinstance_dict(approval_response)
                    THEN DictGet(approval_response, "feedback", "")
                    ELSE ""
  IN IF approved
       THEN [goto |-> "finalize", update |-> [approved |-> TRUE, feedback |-> feedback]]
       ELSE [goto |-> "failed", update |-> [approved |-> FALSE, feedback |-> feedback]]

\* finalize_node
finalize_node(values) == [result |-> DictGet(values, "draft", ""), status |-> COMPLETED]

\* failed_node
failed_node(values) == [error |-> DictGet(values, "feedback", "Draft was rejected"),
                        status |-> FAILED]

\* the graph from the interrupt of approval_node to END
ResumedValues(values, resume_value) ==
  LET command == approval_node(resume_value)
      approved == DictUpdate(values, command.update)
  IN IF command.goto = "finalize"
       THEN DictUpdate(approved, finalize_node(approved))
       ELSE DictUpdate(approved, failed_node(approved))

\* run_workflow(task_id, "", resume=True, resume_value) in the process of
\* worker w.  With an interrupt pending in this process's MemorySaver the graph
\* continues from approval_node (or a collaborator raises: delete_workspace).
\* Without one the library either raises or returns the thread's stored state.
ResumeEngine(w) ==
  /\ wk[w].pc = "r_engine"
  /\ LET t == wk[w].cmd.task_id
         cp == ckpt[w][t]
         resume_value == [approved |-> wk[w].cmd.approved, feedback |-> wk[w].cmd.feedback]
     IN
       IF cp.next = "approval"
         THEN \/ /\ ckpt' = [ckpt EXCEPT ![w][t] =
                               [next |-> "end", values |-> ResumedValues(cp.values, resume_value)]]
                 /\ workspace' = workspace \ {t}
                 /\ wk' = [wk EXCEPT ![w].pc = "r_final",
                             ![w].res = ResumedValues(cp.values, resume_value)]
                 /\ failures' = failures
              \/ /\ failures < MaxFailures
                 /\ failures' = failures + 1
                 /\ wk' = [wk EXCEPT ![w].pc = "r_except"]
                 /\ UNCHANGED <<ckpt, workspace>>
         ELSE \/ /\ wk' = [wk EXCEPT ![w].pc = "r_final", ![w].res = cp.values]
                 /\ UNCHANGED <<ckpt, workspace, failures>>
              \/ /\ wk' = [wk EXCEPT ![w].pc = "r_except"]
                 /\ UNCHANGED <<ckpt, workspace, failures>>
  /\ UNCHANGED <<db, sub, queue, apr, issued, resp, hist, clock, side>>

\* resume_workflow after run_workflow returned: the status write of the
\* branch taken
ResumeFinal(w) ==
  /\ wk[w].pc = "r_final"
  /\ LET t == wk[w].cmd.task_id
         result == wk[w].res
         final_status == DictGet(result, "status", COMPLETED)
         final_result == DictGet(result, "result", "")
     IN
       IF final_status = COMPLETED
         THEN /\ db' = [db EXCEPT ![t] = _update_task_db(@, COMPLETED, final_result)]
              /\ wk' = [wk EXCEPT ![w].pc = "r_log2"]
         ELSE /\ db' = [db EXCEPT ![t] = _update_task_db(@, FAILED, NULL)]
              /\ wk' = [wk EXCEPT ![w] = IdleWorker]
  /\ UNCHANGED <<sub, queue, ckpt, workspace, apr, issued, resp, hist, clock, failures, side>>

\* the except branch of resume_workflow
ResumeExcept(w) ==
  /\ wk[w].pc = "r_except"
  /\ db' = [db EXCEPT ![wk[w].cmd.task_id] = _update_task_db(@, FAILED, NULL)]
  /\ wk' = [wk EXCEPT ![w] = IdleWorker]
  /\ UNCHANGED <<sub, queue, ckpt, workspace, apr, issued, resp, hist, clock, failures, side>>

\* ---------------------------------------------------------- specification
Next ==
  \/ \E t \in TaskIds : StartTask(t)
  \/ \E t \in TaskIds : StartCommit(t)
  \/ ApproveRead
  \/ ApproveWrite
  \/ \E w \in Workers : TakeCommand(w)
  \/ \E w \in Workers : LogRead(w)
  \/ \E w \in Workers : LogWrite(w)
  \/ \E w \in Workers : ExecSetRunning(w)
  \/ \E w \in Workers : ExecEngine(w)
  \/ \E w \in Workers : ExecOutcome(w)
  \/ \E w \in Workers : ExecExcept(w)
  \/ \E w \in Workers : ResumeSetResumed(w)
  \/ \E w \in Workers : ResumeEngine(w)
  \/ \E w \in Workers : ResumeFinal(w)
  \/ \E w \in Workers : ResumeExcept(w)

Spec == Init /\ [][Next]_vars

\* ------------------------------------------- run side with store failures
\* the statements of the try blocks that write to the task table
TryStorePcs == {"e_running", "e_log1", "e_log2", "e_log3", "e_outcome", "e_log4",
                "e_log5", "r_resumed", "r_log1", "r_final", "r_log2"}

\* the _update_task_db call that opens each except branch
ExceptStorePcs == {"e_except", "r_except"}

\* the except branch that handles an exception raised at pc
ExceptOf(pc) ==
  IF pc \in {"r_resumed", "r_log1", "r_final", "r_log2"} THEN "r_except" ELSE "e_except"

\* a table write of worker w raises (the store is unreachable): inside the
\* try block control passes to the except branch and nothing is written; in
\* the except branch the exception leaves the task, before self.retry
StoreFailure(w, cap) ==
  /\ failures < cap
  /\ failures' = failures + 1
  /\ \/ /\ wk[w].pc \in TryStorePcs
        /\ wk' = [wk EXCEPT ![w] = Continue(@, ExceptOf(@.pc))]
     \/ /\ wk[w].pc \in ExceptStorePcs
        /\ wk' = [wk EXCEPT ![w] = IdleWorker]
  /\ UNCHANGED <<db, sub, queue, ckpt, workspace, apr, issued, resp, hist, clock, side>>

RunEngine(w) == EngineRun(w, MaxRunFailures)

RunStoreFailure(w) == StoreFailure(w, MaxRunFailures)

\* submission and execute_workflow only, with up to MaxRunFailures failures
\* of the engine or of the store
NextRun ==
  \/ \E t \in TaskIds : StartTask(t)
  \/ \E t \in TaskIds : StartCommit(t)
  \/ \E w \in Workers : TakeCommand(w)
  \/ \E w \in Workers : LogRead(w)
  \/ \E w \in Workers : LogWrite(w)
  \/ \E w \in Workers : ExecSetRunning(w)
  \/ \E w \in Workers : RunEngine(w)
  \/ \E w \in Workers : ExecOutcome(w)
  \/ \E w \in Workers : ExecExcept(w)
  \/ \E w \in Workers : RunStoreFailure(w)

SpecRun == Init /\ [][NextRun]_vars

\* ------------------------------------------------------------- observers
\* the statuses carried by the broadcasts of the model
WsStatuses == {FAILED}

\* the confirmation websocket_endpoint sends
Confirmation(t) == [type |-> "connected", task_id |-> t]

\* the answer of websocket_endpoint to "ping"
Pong == [text |-> "pong"]

\* the message send_status_update builds (no result, agent_name, action)
StatusMessage(t, status) == [task_id |-> t, status |-> status]

Range(seq) == {seq[i] : i \in 1..Len(seq)}

DictRemove(d, k) == [x \in (DOMAIN d) \ {k} |-> d[x]]

\* list.remove(x): the list without the first occurrence of x
ListRemove(seq, x) ==
  LET first == CHOOSE i \in 1..Len(seq) :
                 seq[i] = x /\ \A j \in 1..(i - 1) : seq[j] # x
  IN [j \in 1..(Len(seq) - 1) |-> IF j < first THEN seq[j] ELSE seq[j + 1]]

connect_Replace(ac, websocket, task_id) ==
  DictUpdate(ac, [k \in {task_id} |-> <<websocket>>])

\* the locked section of ConnectionManager.connect
connect(ac, websocket, task_id) ==
  IF task_id \notin DOMAIN ac
    THEN DictUpdate(ac, [k \in {task_id} |-> <<websocket>>])
    ELSE [ac EXCEPT ![task_id] = Append(@, websocket)]

disconnect_Keep(ac, websocket, task_id) == ac

\* ConnectionManager.disconnect
disconnect(ac, websocket, task_id) ==
  IF task_id \notin DOMAIN ac THEN ac
  ELSE LET rest == IF websocket \in Range(ac[task_id])
                     THEN ListRemove(ac[task_id], websocket) ELSE ac[task_id]
       IN IF rest = << >> THEN DictRemove(ac, task_id)
                          ELSE [ac EXCEPT ![task_id] = rest]

Snapshot_AllTasks(ac, task_id) ==
  IF DOMAIN ac = {} THEN << >> ELSE ac[CHOOSE k \in DOMAIN ac : TRUE]

\* the locked section of broadcast_to_task:
\* self.active_connections.get(task_id, []).copy()
Snapshot(ac, task_id) == DictGet(ac, task_id, << >>)

\* the clean-up loop of broadcast_to_task
RECURSIVE DisconnectAll(_, _, _)
DisconnectAll(ac, disconnected, task_id) ==
  IF disconnected = << >> THEN ac
  ELSE DisconnectAll(disconnect(ac, Head(disconnected), task_id),
                     Tail(disconnected), task_id)

\* what websocket.send_json can do on channel c: reach the client, or, with
\* the client gone, raise or lose the message
SendOutcomes(c) == IF chan[c].peer THEN {"ok"} ELSE {"raise", "lost"}

\* ConnectionManager.connect, first half: await websocket.accept()
WsAccept(c, t) ==
  /\ chan[c].pc = "new"
  /\ chan' = [chan EXCEPT ![c] = [@ EXCEPT !.pc = "register", !.task = t,
                                     !.client_state = CONNECTED, !.peer = TRUE]]
  /\ UNCHANGED <<core, active_connections, bc, scratchpad, stages, units>>

\* ConnectionManager.connect, second half: the registration under the lock
WsRegister(c) ==
  /\ chan[c].pc = "register"
  /\ active_connections' = connect(active_connections, c, chan[c].task)
  /\ chan' = [chan EXCEPT ![c].pc = "confirm", ![c].reg = TRUE]
  /\ UNCHANGED <<core, bc, scratchpad, stages, units>>

\* websocket_endpoint: await websocket.send_json(confirmation)
WsConfirm(c) ==
  /\ chan[c].pc = "confirm"
  /\ \E o \in SendOutcomes(c) :
       chan' = [chan EXCEPT
                  ![c].pc = IF o = "raise" THEN "disconnect" ELSE "listen",
                  ![c].inbox = IF o = "ok" THEN Append(@, Confirmation(chan[c].task))
                                           ELSE @]
  /\ UNCHANGED <<core, active_connections, bc, scratchpad, stages, units>>

\* websocket_endpoint: receive_text() returns "ping", send_text("pong")
WsPing(c) ==
  /\ chan[c].pc = "listen"
  /\ chan[c].peer
  /\ Cardinality({i \in 1..Len(chan[c].inbox) : chan[c].inbox[i] = Pong}) < MaxPings
  /\ chan' = [chan EXCEPT ![c].inbox = Append(@, Pong)]
  /\ UNCHANGED <<core, active_connections, bc, scratchpad, stages, units>>

\* the client goes away
WsPeerClose(c) ==
  /\ chan[c].pc \in {"register", "confirm", "listen"}
  /\ chan[c].peer
  /\ chan' = [chan EXCEPT ![c].peer = FALSE]
  /\ UNCHANGED <<core, active_connections, bc, scratchpad, stages, units>>

\* websocket_endpoint: receive_text() raises WebSocketDisconnect
WsReceiveDisconnect(c) ==
  /\ chan[c].pc = "listen"
  /\ ~chan[c].peer
  /\ chan' = [chan EXCEPT ![c].pc = "disconnect", ![c].client_state = DISCONNECTED]
  /\ UNCHANGED <<core, active_connections, bc, scratchpad, stages, units>>

\* websocket_endpoint: finally: await manager.disconnect(websocket, task_id)
WsDisconnect(c) ==
  /\ chan[c].pc = "disconnect"
  /\ active_connections' = disconnect(active_connections, c, chan[c].task)
  /\ chan' = [chan EXCEPT ![c].pc = "done", ![c].unreg = TRUE]
  /\ UNCHANGED <<core, bc, scratchpad, stages, units>>

\* broadcast_to_task: the snapshot under the lock
BcSnapshot(b, t, status) ==
  /\ bc[b].pc = "idle"
  /\ bc' = [bc EXCEPT ![b] = [NoBroadcast EXCEPT !.pc = "send", !.task = t,
                                 !.msg = StatusMessage(t, status),
                                 !.connections = Snapshot(active_connections, t)]]
  /\ UNCHANGED <<core, active_connections, chan, scratchpad, stages, units>>

\* broadcast_to_task: one round of the send loop
BcSend(b) ==
  /\ bc[b].pc = "send"
  /\ bc[b].i <= Len(bc[b].connections)
  /\ LET c == bc[b].connections[bc[b].i] IN
       IF chan[c].client_state = CONNECTED
         THEN \E o \in SendOutcomes(c) :
                /\ chan' = [chan EXCEPT ![c].inbox =
                              IF o = "ok" THEN Append(@, bc[b].msg) ELSE @]
                /\ bc' = [bc EXCEPT
                            ![b].i = @ + 1,
                            ![b].delivered = IF o = "ok" THEN Append(@, c) ELSE @,
                            ![b].disconnected = IF o = "raise" THEN Append(@, c) ELSE @]
         ELSE /\ chan' = chan
              /\ bc' = [bc EXCEPT ![b].i = @ + 1]
  /\ UNCHANGED <<core, active_connections, scratchpad, stages, units>>

\* broadcast_to_task: the clean-up of the channels whose send raised
BcCleanup(b) ==
  /\ bc[b].pc = "send"
  /\ bc[b].i > Len(bc[b].connections)
  /\ active_connections' =
       DisconnectAll(active_connections, bc[b].disconnected, bc[b].task)
  /\ chan' = [c \in Chans |->
                IF c \in Range(bc[b].disconnected)
                  THEN [chan[c] EXCEPT !.unreg = TRUE] ELSE chan[c]]
  /\ bc' = [bc EXCEPT ![b].pc = "done"]
  /\ UNCHANGED <<core, scratchpad, stages, units>>

NextWs ==
  \/ \E c \in Chans, t \in WsTasks : WsAccept(c, t)
  \/ \E c \in Chans : WsRegister(c)
  \/ \E c \in Chans : WsConfirm(c)
  \/ \E c \in Chans : WsPing(c)
  \/ \E c \in Chans : WsPeerClose(c)
  \/ \E c \in Chans : WsReceiveDisconnect(c)
  \/ \E c \in Chans : WsDisconnect(c)
  \/ \E b \in Bcs, t \in WsTasks, s \in WsStatuses : BcSnapshot(b, t, s)
  \/ \E b \in Bcs : BcSend(b)
  \/ \E b \in Bcs : BcCleanup(b)

SpecWs == Init /\ [][NextWs]_vars

\* ------------------------------------------------------------ scratchpad
\* the task ids, keys and values of the workspace operations of the model
RsTasks == {"t1", "t2"}
RsKeys == {"research_results", "task_type"}
RsValues == {[str |-> "v1"], [list |-> <<"A", "B">>]}

\* the dictionaries save_to_workspace is called with
RsPatches == UNION {[K -> RsValues] : K \in SUBSET RsKeys}

\* get_workspace_key
get_workspace_key(task_id) == <<"task", task_id, "workspace">>

\* json.dumps on a dictionary of strings, lists of strings and dictionaries of
\* strings: the text, as its members with their values as JSON tokens
json_dumps(obj) ==
  [k \in DOMAIN obj |->
     IF "str" \in DOMAIN obj[k] THEN [quoted |-> obj[k].str]
     ELSE IF "list" \in DOMAIN obj[k]
       THEN [array |-> [i \in DOMAIN obj[k].list |-> [quoted |-> obj[k].list[i]]]]
       ELSE [object |-> [m \in DOMAIN obj[k].dict |-> [quoted |-> obj[k].dict[m]]]]]

\* json.loads
json_loads(text) ==
  [k \in DOMAIN text |->
     IF "quoted" \in DOMAIN text[k] THEN [str |-> text[k].quoted]
     ELSE IF "array" \in DOMAIN text[k]
       THEN [list |-> [i \in DOMAIN text[k].array |-> text[k].array[i].quoted]]
       ELSE [dict |-> [m \in DOMAIN text[k].object |-> text[k].object[m].quoted]]]

\* get_from_workspace; found = FALSE stands for None
get_from_workspace(store, task_id) ==
  IF get_workspace_key(task_id) \in DOMAIN store
    THEN [found |-> TRUE, data |-> json_loads(store[get_workspace_key(task_id)])]
    ELSE [found |-> FALSE, data |-> EmptyDict]

merge_Replace(existing, data) == data

merge_Concat(existing, data) ==
  [k \in DOMAIN existing \cup DOMAIN data |->
     IF k \in DOMAIN existing /\ k \in DOMAIN data
          /\ "list" \in DOMAIN existing[k] /\ "list" \in DOMAIN data[k]
       THEN [list |-> existing[k].list \o data[k].list]
       ELSE IF k \in DOMAIN data THEN data[k] ELSE existing[k]]

\* existing.update(data)
merge(existing, data) == DictUpdate(existing, data)

\* save_to_workspace: the key after client.set (the TTL is not modelled)
save_to_workspace(store, task_id, data) ==
  LET got == get_from_workspace(store, task_id)
      existing == IF got.found /\ got.data # EmptyDict THEN got.data ELSE EmptyDict
  IN DictUpdate(store, [k \in {get_workspace_key(task_id)} |->
                          json_dumps(merge(existing, data))])

\* delete_workspace
delete_workspace(store, task_id) == DictRemove(store, get_workspace_key(task_id))

RsSave(t, p) ==
  /\ rop.n < MaxOps
  /\ redis' = save_to_workspace(redis, t, p)
  /\ rop' = [n |-> rop.n + 1, op |-> "save", task_id |-> t, data |-> p,
             prev |-> get_from_workspace(redis, t), before |-> redis]
  /\ UNCHANGED <<core, observers, stages, units>>

RsGet(t) ==
  /\ rop.n < MaxOps
  /\ rop' = [n |-> rop.n + 1, op |-> "get", task_id |-> t, data |-> EmptyDict,
             prev |-> get_from_workspace(redis, t), before |-> redis]
  /\ UNCHANGED <<core, observers, redis, stages, units>>

RsDelete(t) ==
  /\ rop.n < MaxOps
  /\ redis' = delete_workspace(redis, t)
  /\ rop' = [n |-> rop.n + 1, op |-> "delete", task_id |-> t, data |-> EmptyDict,
             prev |-> get_from_workspace(redis, t), before |-> redis]
  /\ UNCHANGED <<core, observers, stages, units>>

NextRs ==
  \/ \E t \in RsTasks, p \in RsPatches : RsSave(t, p)
  \/ \E t \in RsTasks : RsGet(t)
  \/ \E t \in RsTasks : RsDelete(t)

SpecRs == Init /\ [][NextRs]_vars

\* -------------------------------------------------------- research stage
stop_after_attempt_Two == 2

\* stop=stop_after_attempt(3) of research_with_retry
stop_after_attempt == 3

\* the topics an analysis can name
Topics == {"A", "B"}

\* the lists of topics of the model, repeated topics included
TopicLists == UNION {[1..n -> Topics] : n \in 0..MaxTopics}

\* what the k-th invocation of the research tool for a topic returns or raises
ToolResult(topic, k) == [result |-> topic, call |-> k]
ToolError(topic, k) == [exc |-> topic, call |-> k]

\* the entry research_node stores when research_with_retry raised e
FailureMarker(e) == [failed |-> e]

StoreResult_Skip(results, topic, value) == results

\* research_results[topic] = value
StoreResult(results, topic, value) == DictUpdate(results, [k \in {topic} |-> value])

\* the topic loop of research_node is entered with the topics of the analysis
InitRn ==
  /\ CoreInit /\ ObserversInit /\ ScratchpadInit /\ UnitsInit
  /\ an = NoAnalysis
  /\ wr = NoWriting
  /\ \E l \in TopicLists : rs = [NoResearch EXCEPT !.pc = "loop", !.topics = l]

\* one invocation of tool_func.invoke(query) under the retry decorator, with
\* what follows it: a result ends the round and is stored; an exception is
\* retried, or after stop_after_attempt attempts re-raised to research_node,
\* which stores the marker
ToolInvoke ==
  /\ rs.pc = "loop"
  /\ rs.i <= Len(rs.topics)
  /\ LET topic == rs.topics[rs.i]
         k == Len(rs.log) + 1
     IN \/ rs' = [rs EXCEPT
                    !.research_results = StoreResult(@, topic, ToolResult(topic, k)),
                    !.rounds = Append(@, [topic |-> topic, log |-> Append(rs.log, "ok"),
                                          ret |-> ToolResult(topic, k)]),
                    !.log = << >>,
                    !.i = @ + 1]
        \/ /\ k < stop_after_attempt
           /\ rs' = [rs EXCEPT !.log = Append(@, "raise")]
        \/ /\ k >= stop_after_attempt
           /\ rs' = [rs EXCEPT
                       !.research_results =
                          StoreResult(@, topic, FailureMarker(ToolError(topic, k))),
                       !.rounds = Append(@, [topic |-> topic,
                                             log |-> Append(rs.log, "raise"),
                                             ret |-> ToolError(topic, k)]),
                       !.log = << >>,
                       !.i = @ + 1]
  /\ UNCHANGED <<core, observers, scratchpad, an, wr, units>>

\* research_node after the loop: save_to_workspace and the returned update
ResearchReturn ==
  /\ rs.pc = "loop"
  /\ rs.i > Len(rs.topics)
  /\ rs' = [rs EXCEPT !.pc = "done"]
  /\ redis' = save_to_workspace(redis, "t1",
                 [research_results |-> [dict |-> rs.research_results],
                  topics |-> [list |-> rs.topics],
                  task_type |-> [str |-> "summary"],
                  context |-> [str |-> ""]])
  /\ UNCHANGED <<core, observers, rop, an, wr, units>>

NextRn ==
  \/ ToolInvoke
  \/ ResearchReturn

SpecRn == InitRn /\ [][NextRn]_vars

\* ------------------------------------------------------- prompt analyzer
\* the words a prompt of the model can contain: two of the topic keywords and
\* one keyword of each task type of _fallback_analysis
PromptWords == {"langgraph", "redis", "compare", "tutorial", "analyze"}

\* "word in prompt_lower"
Contains(prompt, word) == word \in prompt

\* the lines of a model answer: a code fence or a line of text
Fence == [fence |-> "json"]
Line(body) == [text |-> body]

\* what the text of an answer is, as json.loads sees it: no JSON at all, a
\* number, null, a list, or an object with some of the fields
JsonBodies ==
  { [notjson |-> TRUE], [number |-> 1], [null |-> TRUE], [array |-> <<"x">>],
    [object |-> [topics |-> [list |-> <<"A", "B">>],
                 task_type |-> [str |-> "comparison"],
                 context |-> [str |-> "c"]]],
    [object |-> [topics |-> [str |-> "A"], task_type |-> [str |-> "report"]]],
    [object |-> [topics |-> [list |-> << >>], task_type |-> [str |-> "summary"]]],
    [object |-> [task_type |-> [str |-> "summary"]]],
    [object |-> [topics |-> [list |-> <<"A">>]]] }

\* the outcomes of self.llm.invoke(analysis_prompt): an exception, or an
\* answer that is bare, fenced on lines of its own, or fenced without the
\* closing line
LlmOutcomes ==
  { [raise |-> e] : e \in {"ValueError", "ConnectionError"} }
  \cup { [content |-> <<Line(b)>>] : b \in JsonBodies }
  \cup { [content |-> <<Fence, Line(b), Fence>>] : b \in JsonBodies }
  \cup { [content |-> <<Fence, Line(b)>>] : b \in JsonBodies }

\* the markdown code block removal of analyze
StripFence(content) ==
  IF "fence" \in DOMAIN content[1]
    THEN LET inner == IF Len(content) > 2
                        THEN SubSeq(content, 2, Len(content) - 1)
                        ELSE content
             NotFence(l) == "fence" \notin DOMAIN l
         IN SelectSeq(inner, NotFence)
    ELSE content

\* the exceptions the except clause of analyze catches
Caught == {"JSONDecodeError", "ValueError"}

valid_types == {"comparison", "tutorial", "analysis", "summary"}

\* _fallback_analysis(prompt)
fallback_analysis(prompt) ==
  LET found == (IF Contains(prompt, "langgraph") THEN <<"LangGraph">> ELSE << >>)
               \o (IF Contains(prompt, "redis") THEN <<"Redis">> ELSE << >>)
      topics == IF found = << >> THEN <<"general topic">> ELSE found
      task_type == IF Contains(prompt, "compare") THEN "comparison"
                   ELSE IF Contains(prompt, "tutorial") THEN "tutorial"
                   ELSE IF Contains(prompt, "analyze") THEN "analysis"
                   ELSE "summary"
  IN [topics |-> [list |-> topics],
      task_type |-> [str |-> task_type],
      context |-> [str |-> ""]]

\* the try block of analyze: the analysis it returns, or the exception raised
TryAnalyze(llm) ==
  IF "raise" \in DOMAIN llm THEN [raised |-> llm.raise]
  ELSE
    LET text == StripFence(llm.content)
        body == text[1].text
    IN IF Len(text) # 1 \/ "notjson" \in DOMAIN body
         THEN [raised |-> "JSONDecodeError"]
       ELSE IF "number" \in DOMAIN body \/ "null" \in DOMAIN body
         THEN [raised |-> "TypeError"]
       ELSE IF "array" \in DOMAIN body
         THEN IF "topics" \notin Range(body.array) \/ "task_type" \notin Range(body.array)
                THEN [raised |-> "ValueError"]
                ELSE [raised |-> "TypeError"]
       ELSE
         LET analysis == body.object
         IN IF "topics" \notin DOMAIN analysis \/ "task_type" \notin DOMAIN analysis
              THEN [raised |-> "ValueError"]
              ELSE
                LET listed == IF "str" \in DOMAIN analysis.topics
                                THEN [analysis EXCEPT !.topics = [list |-> <<@.str>>]]
                                ELSE analysis
                IN [value |-> IF listed.task_type.str \notin valid_types
                                THEN [listed EXCEPT !.task_type = [str |-> "summary"]]
                                ELSE listed]

\* analyze(prompt): the returned analysis or the exception that leaves it,
\* and whether _fallback_analysis produced it
analyze(prompt, llm) ==
  LET r == TryAnalyze(llm)
  IN IF "raised" \in DOMAIN r /\ r.raised \in Caught
       THEN [ret |-> [value |-> fallback_analysis(prompt)], fallback |-> TRUE]
       ELSE [ret |-> r, fallback |-> FALSE]

InitAn ==
  /\ CoreInit /\ ObserversInit /\ ScratchpadInit /\ UnitsInit
  /\ rs = NoResearch
  /\ wr = NoWriting
  /\ \E p \in SUBSET PromptWords, o \in LlmOutcomes :
       an = [NoAnalysis EXCEPT !.pc = "called", !.prompt = p, !.llm = o]

\* research_node calls analyzer.analyze(prompt); an exception of analyze
\* leaves research_node as well
Analyze ==
  /\ an.pc = "called"
  /\ LET r == analyze(an.prompt, an.llm)
     IN an' = [an EXCEPT !.pc = "done", !.ret = r.ret, !.fallback = r.fallback]
  /\ UNCHANGED <<core, observers, scratchpad, rs, wr, units>>

NextAn == Analyze

SpecAn == InitAn /\ [][NextAn]_vars

\* ---------------------------------------------------------- writing stage
\* the task writing_node runs for
WrTask == "t1"

Dict1(k, v) == [x \in {k} |-> v]

\* the states writing_node is entered with: research_results missing, empty
\* or filled, task_type missing or set
WrStates ==
  { DictUpdate(DictUpdate(Dict1("task_id", [str |-> WrTask]), r), t) :
      r \in { EmptyDict,
              Dict1("research_results", [dict |-> EmptyDict]),
              Dict1("research_results", [dict |-> Dict1("A", "state research")]) },
      t \in { EmptyDict, Dict1("task_type", [str |-> "tutorial"]) } }

\* the dictionaries saved to the workspace before writing_node runs: none,
\* an empty one, the entry of a research stage without topics, the entry of
\* a research stage with a topic, and an entry without research_results
WrEntries ==
  { EmptyDict,
    [research_results |-> [dict |-> EmptyDict], topics |-> [list |-> << >>],
     task_type |-> [str |-> "summary"], context |-> [str |-> ""]],
    [research_results |-> [dict |-> Dict1("A", "workspace research")],
     topics |-> [list |-> <<"A">>],
     task_type |-> [str |-> "comparison"], context |-> [str |-> ""]],
    [research_langgraph |-> [str |-> "LangGraph info..."],
     research_crewai |-> [str |-> "CrewAI info..."]] }

\* Redis when writing_node runs: empty, an entry of another task only, or an
\* entry of the task
WrStores ==
  { EmptyDict,
    save_to_workspace(EmptyDict, "t2",
                      CHOOSE e \in WrEntries :
                        "topics" \in DOMAIN e /\ e.topics.list # << >>) }
  \cup { save_to_workspace(EmptyDict, WrTask, e) : e \in WrEntries }

\* the outcomes of llm.invoke(formatted_prompt)
WriterOutcomes == { [content |-> "draft 1"], [content |-> "draft 2"], [raise |-> "error"] }

ErrorDraft == "Error: No research results available to generate content."

\* select_template
select_template(task_type) ==
  IF task_type \in {"comparison", "tutorial", "analysis", "summary"}
    THEN task_type ELSE "summary"

FallBack_Never(research_results) == FALSE

\* "if not research_results" on the research of the state
FallBack(research_results) == research_results = EmptyDict

NothingToWrite_Never(research_results) == FALSE

\* the second "if not research_results", on the research writing_node found
NothingToWrite(research_results) == research_results = EmptyDict

\* writing_node(state) with get_from_workspace reading store and the writer
\* answering with writer: the returned update or the exception, the prompt
\* handed to the writer, and whether the workspace was read and the writer
\* called
writing_node(state, store, writer) ==
  LET state_research == DictGet(state, "research_results", [dict |-> EmptyDict]).dict
      state_type == DictGet(state, "task_type", [str |-> "summary"]).str
      read == FallBack(state_research)
      workspace_data == get_from_workspace(store, state.task_id.str)
      use == read /\ workspace_data.found /\ workspace_data.data # EmptyDict
      research_results ==
        IF use THEN DictGet(workspace_data.data, "research_results",
                            [dict |-> EmptyDict]).dict
               ELSE state_research
      task_type ==
        IF use THEN DictGet(workspace_data.data, "task_type", [str |-> state_type]).str
               ELSE state_type
      formatted == [template |-> select_template(task_type),
                    research_context |-> research_results]
  IN IF NothingToWrite(research_results)
       THEN [ret |-> [draft |-> ErrorDraft, status |-> WRITING],
             formatted_prompt |-> EmptyDict, read |-> read, called |-> FALSE]
     ELSE IF "raise" \in DOMAIN writer
       THEN [ret |-> [raised |-> writer.raise],
             formatted_prompt |-> formatted, read |-> read, called |-> TRUE]
       ELSE [ret |-> [draft |-> writer.content, status |-> WRITING],
             formatted_prompt |-> formatted, read |-> read, called |-> TRUE]

InitWr ==
  /\ CoreInit /\ ObserversInit /\ UnitsInit
  /\ rop = NoOp
  /\ rs = NoResearch
  /\ an = NoAnalysis
  /\ redis \in WrStores
  /\ \E s \in WrStates, o \in WriterOutcomes :
       wr = [NoWriting EXCEPT !.pc = "entered", !.state = s, !.writer = o]

WritingNode ==
  /\ wr.pc = "entered"
  /\ LET r == writing_node(wr.state, redis, wr.writer)
     IN wr' = [wr EXCEPT !.pc = "done", !.ret = r.ret,
                         !.formatted_prompt = r.formatted_prompt,
                         !.read = r.read, !.called = r.called]
  /\ UNCHANGED <<core, observers, scratchpad, rs, an, units>>

NextWr == WritingNode

SpecWr == InitWr /\ [][NextWr]_vars

\* ------------------------------------------------ research_node as a whole
\* the topic loop of research_node from topic i on, when research_with_retry
\* ends for each topic as outcome says (a result, or the exception re-raised)
RECURSIVE TopicLoop(_, _, _, _)
TopicLoop(topics, i, outcome, research_results) ==
  IF i > Len(topics) THEN research_results
  ELSE TopicLoop(topics, i + 1, outcome,
         StoreResult(research_results, topics[i],
                     IF "result" \in DOMAIN outcome[topics[i]]
                       THEN outcome[topics[i]]
                       ELSE FailureMarker(outcome[topics[i]])))

\* the store after the calls of save_to_workspace with saves[i], saves[i+1], ...
RECURSIVE SaveAll(_, _, _, _)
SaveAll(store, task_id, saves, i) ==
  IF i > Len(saves) THEN store
  ELSE SaveAll(save_to_workspace(store, task_id, saves[i]), task_id, saves, i + 1)

\* research_node(state) from the analysis on: the update it returns, the
\* data it hands to save_to_workspace, call by call, and the store after them
research_node(state, store, analysis, outcome) ==
  LET topics == DictGet(analysis, "topics", [list |-> << >>]).list
      task_type == DictGet(analysis, "task_type", [str |-> "summary"])
      context == DictGet(analysis, "context", [str |-> ""])
      research_results == TopicLoop(topics, 1, outcome, EmptyDict)
      saves == << [research_results |-> [dict |-> research_results],
                   topics |-> [list |-> topics],
                   task_type |-> task_type,
                   context |-> context] >>
  IN [update |-> [research_results |-> [dict |-> research_results],
                  research_queries |-> [list |-> topics],
                  task_type |-> task_type,
                  status |-> RESEARCHING],
      saves |-> saves,
      store |-> SaveAll(store, state.task_id.str, saves, 1)]

\* how research_with_retry can end for each topic
RetryOutcomes == [Topics -> {ToolResult("x", 1), ToolError("x", stop_after_attempt)}]

\* ------------------------------------------------------------- the graph
\* the thread id of the graph execution
GrTask == "t1"

START == "START"
END == "END"

\* add_edge of create_workflow
Edges == {<<START, "research">>, <<"research", "writing">>, <<"writing", "approval">>,
          <<"finalize", END>>, <<"failed", END>>}

Successor_SkipWriting(node) == IF node = START THEN "research" ELSE "approval"

\* the node the engine runs after node has returned its update
Successor(node) == CHOOSE n \in {e[2] : e \in Edges} : <<node, n>> \in Edges

\* initial_state of run_workflow
initial_state(task_id) == [task_id |-> [str |-> task_id], prompt |-> [str |-> "p"],
                           status |-> RUNNING]

\* what the thread's checkpoint holds when a fresh run starts: nothing, or the
\* values of an earlier run of the same task in this process
GrLeftovers ==
  { EmptyDict,
    [research_results |-> [dict |-> Dict1("B", ToolResult("old", 1))],
     task_type |-> [str |-> "tutorial"], draft |-> "old draft", status |-> WRITING] }

\* the workspace when a fresh run starts: empty, or the entry of an earlier run
GrStores ==
  { EmptyDict,
    save_to_workspace(EmptyDict, GrTask,
      [research_results |-> [dict |-> Dict1("B", ToolResult("old", 1))],
       topics |-> [list |-> <<"B">>], task_type |-> [str |-> "tutorial"],
       context |-> [str |-> ""]]) }

\* what analyzer.analyze returns to research_node, or raises
GrAnalyses ==
  { [raised |-> "ConnectionError"] }
  \cup { [value |-> [topics |-> [list |-> l], task_type |-> [str |-> "comparison"],
                     context |-> [str |-> ""]]] : l \in {<< >>, <<"A">>, <<"A", "B">>} }

\* the resume values: mappings with or without the two keys, and values that
\* are not mappings
Payloads ==
  { [approved |-> a, feedback |-> f] : a \in BOOLEAN, f \in {"", "nope"} }
  \cup { [approved |-> TRUE], [approved |-> FALSE], [feedback |-> "nope"], EmptyDict }
  \cup { Scalar(s) : s \in Scalars }

\* graph.invoke(initial_state, config) entered
InitGr ==
  /\ CoreInit /\ ObserversInit /\ StagesInit
  /\ rop = NoOp
  /\ tool = NoTool
  /\ dbop = NoDbOp
  /\ redis \in GrStores
  /\ \E left \in GrLeftovers :
       gr = [pc |-> Successor(START), phase |-> "fresh",
             values |-> DictUpdate(left, initial_state(GrTask)),
             trace |-> << >>, interrupt |-> EmptyDict, payload |-> EmptyDict,
             writing |-> EmptyDict]

Ran(node) == Append(gr.trace, [node |-> node, phase |-> gr.phase])

\* the superstep that runs research_node
GrResearch ==
  /\ gr.pc = "research"
  /\ \E a \in GrAnalyses, outcome \in RetryOutcomes :
       IF "raised" \in DOMAIN a
         THEN /\ gr' = [gr EXCEPT !.pc = "raised", !.trace = Ran("research")]
              /\ redis' = redis
         ELSE LET r == research_node(gr.values, redis, a.value, outcome)
              IN /\ gr' = [gr EXCEPT !.pc = Successor("research"),
                                     !.values = DictUpdate(@, r.update),
                                     !.trace = Ran("research")]
                 /\ redis' = r.store
  /\ UNCHANGED <<core, observers, rop, stages, tool, dbop>>

\* the workspace key disappears between two stages (delete_workspace of
\* another execution for the task, or the key's expiry)
GrWorkspaceGone ==
  /\ gr.pc = "writing"
  /\ get_workspace_key(GrTask) \in DOMAIN redis
  /\ redis' = delete_workspace(redis, GrTask)
  /\ UNCHANGED <<core, observers, rop, stages, units>>

\* the superstep that runs writing_node
GrWriting ==
  /\ gr.pc = "writing"
  /\ \E writer \in WriterOutcomes :
       LET r == writing_node(gr.values, redis, writer)
           seen == [state |-> DictGet(gr.values, "research_results",
                                      [dict |-> EmptyDict]).dict,
                    entry |-> DictGet(get_from_workspace(redis, GrTask).data,
                                      "research_results", [dict |-> EmptyDict]).dict,
                    called |-> r.called, ret |-> r.ret]
       IN IF "raised" \in DOMAIN r.ret
            THEN gr' = [gr EXCEPT !.pc = "raised", !.trace = Ran("writing"),
                                  !.writing = seen]
            ELSE gr' = [gr EXCEPT !.pc = Successor("writing"),
                                  !.values = DictUpdate(@, r.ret),
                                  !.trace = Ran("writing"),
                                  !.writing = seen]
  /\ UNCHANGED <<core, observers, scratchpad, stages, tool, dbop>>

\* the superstep that runs approval_node up to interrupt(): the run suspends
\* and graph.invoke returns the descriptor
GrApproval ==
  /\ gr.pc = "approval"
  /\ gr' = [gr EXCEPT !.pc = "suspended", !.trace = Ran("approval"),
                      !.interrupt = approval_descriptor(gr.values)]
  /\ UNCHANGED <<core, observers, scratchpad, stages, tool, dbop>>

\* graph.invoke(Command(resume=payload)): approval_node runs again, interrupt()
\* returns the payload and the Command routes the run
GrResume ==
  /\ gr.pc = "suspended"
  /\ \E payload \in Payloads :
       LET command == approval_node(payload)
       IN gr' = [gr EXCEPT !.pc = command.goto, !.phase = "resume",
                           !.payload = payload,
                           !.values = DictUpdate(@, command.update),
                           !.trace = Append(@, [node |-> "approval", phase |-> "resume"])]
  /\ UNCHANGED <<core, observers, scratchpad, stages, tool, dbop>>

\* the superstep that runs finalize_node
GrFinalize ==
  /\ gr.pc = "finalize"
  /\ gr' = [gr EXCEPT !.pc = Successor("finalize"),
                      !.values = DictUpdate(@, finalize_node(gr.values)),
                      !.trace = Ran("finalize")]
  /\ redis' = delete_workspace(redis, GrTask)
  /\ UNCHANGED <<core, observers, rop, stages, tool, dbop>>

\* the superstep that runs failed_node
GrFailed ==
  /\ gr.pc = "failed"
  /\ gr' = [gr EXCEPT !.pc = Successor("failed"),
                      !.values = DictUpdate(@, failed_node(gr.values)),
                      !.trace = Ran("failed")]
  /\ redis' = delete_workspace(redis, GrTask)
  /\ UNCHANGED <<core, observers, rop, stages, tool, dbop>>

NextGr ==
  \/ GrResearch
  \/ GrWorkspaceGone
  \/ GrWriting
  \/ GrApproval
  \/ GrResume
  \/ GrFinalize
  \/ GrFailed

SpecGr == InitGr /\ [][NextGr]_vars

\* ------------------------------------------- research_node, re-executed
\* the task whose research stage is executed again
RxTask == "t1"

\* what analyzer.analyze returns, on every execution
RxAnalyses ==
  { [topics |-> [list |-> l], task_type |-> [str |-> ty], context |-> [str |-> c]] :
      l \in {<< >>, <<"A">>, <<"A", "B">>, <<"A", "A">>},
      ty \in {"comparison"}, c \in {"", "ctx"} }
  \cup { [topics |-> [list |-> <<"B">>]] }

\* the workspace before the first execution: no entry, or the entry a stage
\* of an earlier run of the task has left
RxStores ==
  { EmptyDict,
    save_to_workspace(EmptyDict, RxTask,
      [research_results |-> [dict |-> Dict1("B", ToolResult("old", 1))],
       topics |-> [list |-> <<"B">>], task_type |-> [str |-> "tutorial"],
       context |-> [str |-> ""], note |-> [str |-> "kept"]]) }

\* the research stage is about to be executed, and executed again, with the
\* same entry state and the same answers of the analyzer and of the tool
InitRx ==
  /\ CoreInit /\ ObserversInit /\ UnitsInit
  /\ rop = NoOp
  /\ an = NoAnalysis
  /\ wr = NoWriting
  /\ redis \in RxStores
  /\ \E a \in RxAnalyses, outcome \in RetryOutcomes :
       rs = [state |-> initial_state(RxTask), analysis |-> a, outcome |-> outcome,
             sets |-> << >>, contents |-> << >>]

\* one execution of research_node
RxExecute ==
  /\ Len(rs.sets) < MaxExecs
  /\ LET r == research_node(rs.state, redis, rs.analysis, rs.outcome)
     IN /\ redis' = r.store
        /\ rs' = [rs EXCEPT !.sets = Append(@, Len(r.saves)),
                            !.contents = Append(@, get_from_workspace(r.store, RxTask))]
  /\ UNCHANGED <<core, observers, rop, an, wr, units>>

NextRx == RxExecute

SpecRx == InitRx /\ [][NextRx]_vars

\* ------------------------------------------------------- search_general
call_key_Shared(query) == <<"flaky_", "">>

\* call_key = f"flaky_{query}"
call_key(query) == <<"flaky_", query.text>>

\* search_general(query) with the counters counts: the counters after the
\* call and what it returns or raises
search_general(counts, query) ==
  IF query.flaky
    THEN LET current_count == DictGet(counts, call_key(query), 0)
             counted == DictUpdate(counts, Dict1(call_key(query), current_count + 1))
         IN IF current_count = 0
              THEN [counts |-> counted, ret |-> [raised |-> "RuntimeError"]]
              ELSE [counts |-> counted,
                    ret |-> [text |-> "Flaky search succeeded on attempt",
                             attempt |-> current_count + 1, query |-> query.text]]
    ELSE [counts |-> counts,
          ret |-> [text |-> "General search results for", query |-> query.text]]

\* search_general.invoke(query)
SearchGeneral(q) ==
  /\ tool.calls < MaxCalls
  /\ LET r == search_general(tool.counts, q)
     IN tool' = [tool EXCEPT !.counts = r.counts,
                             !.since[q] = @ + 1,
                             !.calls = @ + 1,
                             !.last = [query |-> q, k |-> tool.since[q] + 1, ret |-> r.ret]]
  /\ UNCHANGED <<core, observers, scratchpad, stages, gr, dbop>>

\* reset_flaky_counts()
ResetFlakyCounts ==
  /\ tool.calls < MaxCalls
  /\ tool' = [tool EXCEPT !.counts = EmptyDict,
                          !.since = [q \in Queries |-> 0],
                          !.calls = @ + 1]
  /\ UNCHANGED <<core, observers, scratchpad, stages, gr, dbop>>

NextTl ==
  \/ \E q \in Queries : SearchGeneral(q)
  \/ ResetFlakyCounts

SpecTl == Init /\ [][NextTl]_vars

\* ------------------------------------------------------ database/crud.py
\* the ids the operations are called with
DbIds == {"u1", "u2"}

DbPrompts == {"p", "q"}

\* the statuses and results the callers pass
DbStatuses == {RUNNING, FAILED}
DbResults == {"text"}

\* Task(prompt=prompt, status=PENDING, agent_logs=[]) with its generated id
Task(id, prompt) == DictUpdate(create_task, [id |-> id, prompt |-> prompt])

\* return None
None == [found |-> FALSE]

\* select(Task).where(Task.id == task_id) in a session that sees the
\* committed rows: scalar_one_or_none(), NoRow standing for None
DbSelect(table, task_id) == IF task_id \in DOMAIN table THEN table[task_id] ELSE NoRow

\* the table after the flush of row under task_id (nothing to flush for None)
DbFlush(table, task_id, row) ==
  IF row.exists THEN DictUpdate(table, Dict1(task_id, row)) ELSE table

\* return task (or None)
DbReturn(row) == IF row.exists THEN [found |-> TRUE, task |-> row] ELSE None

DbDone(op, task_id, ret) ==
  [op |-> op, task_id |-> task_id, ret |-> ret, before |-> dbop.table,
   flushed |-> dbop.pending]

\* create_task in the request's session: the INSERT is flushed, not committed
DbCreateTask(id, prompt) ==
  /\ dbop.n < MaxDbOps
  /\ id \notin DOMAIN dbop.table \cup DOMAIN dbop.pending
  /\ dbop' = [dbop EXCEPT !.pending = DictUpdate(@, Dict1(id, Task(id, prompt))),
                          !.n = @ + 1,
                          !.last = DbDone("create_task", id, DbReturn(Task(id, prompt)))]
  /\ UNCHANGED <<core, observers, scratchpad, stages, gr, tool>>

\* get_db commits the request's session
DbCommit(id) ==
  /\ dbop.n < MaxDbOps
  /\ id \in DOMAIN dbop.pending
  /\ dbop' = [dbop EXCEPT !.table = DictUpdate(@, Dict1(id, dbop.pending[id])),
                          !.pending = [k \in DOMAIN @ \ {id} |-> @[k]],
                          !.n = @ + 1,
                          !.last = DbDone("commit", id, None)]
  /\ UNCHANGED <<core, observers, scratchpad, stages, gr, tool>>

\* get_task in another session
DbGetTask(id) ==
  /\ dbop.n < MaxDbOps
  /\ dbop' = [dbop EXCEPT !.n = @ + 1,
                          !.last = DbDone("get_task", id,
                                          DbReturn(DbSelect(dbop.table, id)))]
  /\ UNCHANGED <<core, observers, scratchpad, stages, gr, tool>>

\* update_task_status in another session, committed by its caller
DbUpdateTaskStatus(id, status) ==
  /\ dbop.n < MaxDbOps
  /\ LET row == update_task_status(DbSelect(dbop.table, id), status)
     IN dbop' = [dbop EXCEPT !.table = DbFlush(@, id, row),
                             !.n = @ + 1,
                             !.last = DbDone("update_task_status", id, DbReturn(row))]
  /\ UNCHANGED <<core, observers, scratchpad, stages, gr, tool>>

\* update_task_result in another session, committed by its caller
DbUpdateTaskResult(id, result, status) ==
  /\ dbop.n < MaxDbOps
  /\ LET row == update_task_result(DbSelect(dbop.table, id), result, status)
     IN dbop' = [dbop EXCEPT !.table = DbFlush(@, id, row),
                             !.n = @ + 1,
                             !.last = DbDone("update_task_result", id, DbReturn(row))]
  /\ UNCHANGED <<core, observers, scratchpad, stages, gr, tool>>

\* append_agent_log in another session, committed by its caller
DbAppendAgentLog(id, agent, action) ==
  /\ dbop.n < MaxDbOps
  /\ LET task == DbSelect(dbop.table, id)
         row == append_agent_log(task, task.agent_logs, LogEntry(agent, action, dbop.n))
     IN dbop' = [dbop EXCEPT !.table = DbFlush(@, id, row),
                             !.n = @ + 1,
                             !.last = DbDone("append_agent_log", id, DbReturn(row))]
  /\ UNCHANGED <<core, observers, scratchpad, stages, gr, tool>>

NextDb ==
  \/ \E id \in DbIds, prompt \in DbPrompts : DbCreateTask(id, prompt)
  \/ \E id \in DbIds : DbCommit(id)
  \/ \E id \in DbIds : DbGetTask(id)
  \/ \E id \in DbIds, status \in DbStatuses : DbUpdateTaskStatus(id, status)
  \/ \E id \in DbIds, result \in DbResults : DbUpdateTaskResult(id, result, COMPLETED)
  \/ \E id \in DbIds : DbAppendAgentLog(id, "Orchestrator", "Workflow started")

SpecDb == Init /\ [][NextDb]_vars

\* ================================================================= claims
Terminal == {COMPLETED, FAILED}

IsPrefix(s, t) == Len(s) <= Len(t) /\ SubSeq(t, 1, Len(s)) = s

Executors(t) == {w \in Workers : wk[w].pc # "idle" /\ wk[w].cmd.task_id = t}

\* nothing is in flight: no command queued or running, no request between its
\* check and its UPDATE, no submission uncommitted
Quiescent ==
  /\ queue = EmptyBag
  /\ apr = EmptyBag
  /\ \A w \in Workers : wk[w].pc = "idle"
  /\ \A t \in TaskIds : sub[t] # "created"

\* C1: once a task's status is COMPLETED or FAILED it never changes again
C1_TerminalStable ==
  [][\A t \in TaskIds : db[t].status \in Terminal => db'[t].status = db[t].status]_vars

\* C2: a task whose stored result is non-empty has status COMPLETED
C2_ResultImpliesCompleted ==
  \A t \in TaskIds : db[t].result \notin {NULL, ""} => db[t].status = COMPLETED

\* C3: at most one executor (execute_workflow or resume_workflow invocation)
\* is active for a task id at any time
C3_OneExecutorPerTask ==
  \A t \in TaskIds : Cardinality(Executors(t)) <= 1

\* C4: the activity log is append-only: after every step the stored sequence has
\* the previous sequence as a prefix
C4_LogAppendOnly ==
  [][\A t \in TaskIds : IsPrefix(db[t].agent_logs, db'[t].agent_logs)]_vars

\* C5: a task's status is COMPLETED only after an approve request with
\* approved=true was accepted for it while it was AWAITING_APPROVAL, and
\* execute_workflow always takes its interrupt branch, so the first run never
\* writes COMPLETED
C5_CompletedOnlyAfterApproval ==
  /\ \A t \in TaskIds : db[t].status = COMPLETED => hist[t].approved > 0
  /\ \A w \in Workers : wk[w].pc = "e_outcome" => get_interrupt_info(wk[w].res)

C5_Witness ==
  \E t \in TaskIds : db[t].status = COMPLETED /\ db[t].result \in Drafts

\* C6: an approve request for a task that is not AWAITING_APPROVAL is answered
\* 400, one for an unknown id 404; either leaves the records, the queue and
\* the accepted requests unchanged; a request is accepted only for a task
\* that is AWAITING_APPROVAL
C6_InvalidApproveRejected ==
  [][issued' # issued =>
       \/ /\ \E t \in TaskIds :
               /\ db[t].exists
               /\ db[t].status = AWAITING_APPROVAL
               /\ hist'[t].accepted = hist[t].accepted + 1
          /\ resp' = resp
       \/ /\ resp'.code \in {400, 404}
          /\ resp'.code = 404 <=> ~db[resp'.task_id].exists
          /\ resp'.code = 400 => db[resp'.task_id].status # AWAITING_APPROVAL
          /\ db' = db /\ queue' = queue /\ apr' = apr /\ hist' = hist
    ]_vars

C6_Witness ==
  /\ resp.code = 400
  /\ db[resp.task_id].exists
  /\ hist[resp.task_id].accepted = 0
  /\ queue = EmptyBag

\* C7: of the approve requests for one task at most one is accepted, and at
\* most one resume command is ever enqueued for it
C7_AtMostOneAccepted ==
  \A t \in TaskIds : hist[t].accepted <= 1 /\ hist[t].resumes <= 1

\* C8: after an approve request with approved=true is accepted and no
\* collaborator fails, the task ends COMPLETED with the draft as its result
\* (stated for the states in which nothing is left to run)
C8_ApprovedCompletes ==
  \A t \in TaskIds :
    (Quiescent /\ hist[t].approved > 0 /\ failures = 0)
      => (db[t].status = COMPLETED /\ db[t].result \in Drafts)

\* C9: an accepted approve request with approved=false enqueues no resume
\* command, and from its return on the task's status is FAILED
C9_RejectStaysFailed ==
  \A t \in TaskIds :
    /\ hist[t].resumes <= hist[t].approved
    /\ hist[t].rejected # {} => db[t].status = FAILED

\* the error recorded for a task: the workers store error text in column
\* result (execute_workflow), the table has no other column for it
RecordedError(row) == row.result

\* C10: a task rejected with feedback F ends FAILED with recorded error F
C10_RejectRecordsFeedback ==
  \A t \in TaskIds : \A F \in hist[t].rejected :
     Quiescent => (db[t].status = FAILED /\ RecordedError(db[t]) = F)

\* C11: start_task leaves the task PENDING with exactly one run command
\* enqueued, and when no collaborator fails and no approve request was
\* accepted the status becomes AWAITING_APPROVAL, whatever the order of the
\* request's commit and execute_workflow (stated for the states in which
\* nothing is left to run, and for the number of engine runs)
C11_StartReachesAwaiting ==
  \A t \in TaskIds :
    /\ (failures = 0) => hist[t].runs <= 1
    /\ (Quiescent /\ sub[t] = "committed" /\ failures = 0 /\ hist[t].accepted = 0)
         => db[t].status = AWAITING_APPROVAL

\* the worker processes whose MemorySaver holds a checkpoint of t that is
\* suspended at the approval gate
Pending(t) == {w \in Workers : ckpt[w][t].next = "approval"}

\* C12: a task has a live checkpoint exactly while its status is
\* AWAITING_APPROVAL, never more than one, and none once it is COMPLETED or
\* FAILED (stated for the states in which nothing is left to run)
C12_CheckpointIffAwaiting ==
  \A t \in TaskIds :
    Quiescent =>
      /\ (Pending(t) # {}) <=> (db[t].status = AWAITING_APPROVAL)
      /\ Cardinality(Pending(t)) <= 1
      /\ db[t].status \in Terminal => Pending(t) = {}

\* C13: a task that is COMPLETED or FAILED has no scratchpad entry, whether
\* it ended by approval, by rejection or by an exception (stated for the
\* states in which nothing is left to run)
C13_TerminalNoWorkspace ==
  \A t \in TaskIds :
    (Quiescent /\ db[t].status \in Terminal) => t \notin workspace

\* C14: a resume command for an approved draft, run by any worker process
\* while the task's checkpoint is suspended at the approval gate and no
\* collaborator fails, restores the checkpointed state and continues to
\* finalize: the engine returns COMPLETED with the draft as result
C14_ResumeOnAnyWorker ==
  [][\A w \in Workers :
       LET t == wk[w].cmd.task_id IN
         ( /\ wk[w].pc = "r_engine"
           /\ wk'[w].pc # "r_engine"
           /\ wk[w].cmd.approved
           /\ Pending(t) # {}
           /\ failures' = failures )
         => /\ wk'[w].pc = "r_final"
            /\ DictGet(wk'[w].res, "status", NULL) = COMPLETED
            /\ DictGet(wk'[w].res, "result", NULL) \in Drafts
    ]_vars

\* C16: a resume command whose engine invocation raised is retried (while
\* it has been retried fewer than max_retries times): when its except branch
\* ends, the command is back in the queue with one more retry
C16_ResumeRetried ==
  [][\A w \in Workers :
       ( /\ wk[w].pc = "r_except"
         /\ wk'[w].pc = "idle"
         /\ wk[w].cmd.retries < max_retries )
       => \E c \in BagToSet(queue') :
            /\ c.kind = "resume"
            /\ c.task_id = wk[w].cmd.task_id
            /\ c.retries = wk[w].cmd.retries + 1
    ]_vars

\* C17: every FAILED task has a populated error (column result is the only
\* place the workers record one, see RecordedError)
C17_FailedHasError ==
  \A t \in TaskIds :
    db[t].status = FAILED => RecordedError(db[t]) \notin {NULL, ""}

\* C20: every transition of a task's status into RESUMED starts from
\* AWAITING_APPROVAL, whether approve_task or resume_workflow writes it
C20_ResumedFromAwaiting ==
  [][\A t \in TaskIds :
       (db'[t].status = RESUMED /\ db[t].status # RESUMED)
         => db[t].status = AWAITING_APPROVAL
    ]_vars

\* C19 as stated: every transition of a task's status into AWAITING_APPROVAL
\* starts from WRITING
C19_AwaitingFromWriting ==
  [][\A t \in TaskIds :
       (db'[t].status = AWAITING_APPROVAL /\ db[t].status # AWAITING_APPROVAL)
         => db[t].status = WRITING
    ]_vars

\* C19 (amended): every transition of a task's status into AWAITING_APPROVAL
\* is the write of execute_workflow that follows a suspended engine outcome;
\* it never starts from WRITING, which is never recorded, but from the status
\* left by the attempt's own first write: RUNNING, or PENDING when that write
\* came before the row was visible
C19_AwaitingFromRunning ==
  [][\A t \in TaskIds :
       (db'[t].status = AWAITING_APPROVAL /\ db[t].status # AWAITING_APPROVAL)
         => /\ db[t].status \in {RUNNING, PENDING}
            /\ \E w \in Workers :
                 /\ wk[w].cmd.task_id = t
                 /\ wk[w].pc = "e_outcome"
                 /\ get_interrupt_info(wk[w].res)
                 /\ wk'[w].pc = "e_log4"
    ]_vars

C19_Witness ==
  \E t \in TaskIds, w \in Workers :
    /\ db[t].status = AWAITING_APPROVAL
    /\ wk[w].pc = "e_log4"
    /\ wk[w].cmd.task_id = t
    /\ wk[w].cmd.retries > 0

\* C15: a run command whose engine invocation raises on every attempt is
\* attempted at most max_retries + 1 = 4 times; after the last attempt the
\* task's status is FAILED and no further attempt is scheduled
C15_RunAttemptsBounded ==
  \A t \in TaskIds :
    /\ hist[t].runs <= max_retries + 1
    /\ (Quiescent /\ hist[t].raised = max_retries + 1) => db[t].status = FAILED

\* C18: once the engine has returned a suspended outcome for a task's run
\* command the command is never retried and the engine is not invoked again
\* for it, even if a table write after the suspension fails
C18_NoRetryAfterSuspend ==
  [][\A t \in TaskIds :
       hist[t].suspended > 0
         => /\ hist'[t].runs = hist[t].runs
            /\ \A c \in BagToSet(queue') : ~(c.kind = "run" /\ c.task_id = t)
    ]_vars

\* the statuses of task t that a broadcast_to_task call has carried
Broadcast(t) == {bc[b].msg.status : b \in {x \in Bcs : bc[x].pc # "idle" /\ bc[x].task = t}}

\* the channels for which connect has completed and disconnect has not
Registered(t) == {c \in Chans : chan[c].task = t /\ chan[c].reg /\ ~chan[c].unreg}

\* a round of the send loop of broadcast b
SendStep(b) == bc[b].pc = "send" /\ bc'[b].pc = "send" /\ bc'[b].i = bc[b].i + 1

\* the channel that round addresses can be reached
Reachable(b) ==
  LET c == bc[b].connections[bc[b].i] IN chan[c].client_state = CONNECTED /\ chan[c].peer

\* that round delivers the message of b
Delivers(b) ==
  LET c == bc[b].connections[bc[b].i] IN
    /\ chan'[c].inbox = Append(chan[c].inbox, bc[b].msg)
    /\ bc'[b].delivered = Append(bc[b].delivered, c)

\* C21: every change of a task's recorded status is followed by a broadcast
\* of the new status to the task's observers, in particular a final FAILED
\* event (stated for the states in which nothing is left to run)
C21_StatusChangeBroadcast ==
  \A t \in TaskIds :
    (Quiescent /\ db[t].exists /\ db[t].status # PENDING)
      => db[t].status \in Broadcast(t)

\* C22: broadcast_to_task(t, m) takes as its snapshot the channels registered
\* for t, delivers m to each of them that is still connected when its turn
\* comes, and delivers to no channel of another task id
C22_BroadcastDelivers ==
  [][\A b \in Bcs :
       /\ (bc[b].pc = "idle" /\ bc'[b].pc = "send")
            => Range(bc'[b].connections) = Registered(bc'[b].task)
       /\ (SendStep(b) /\ Reachable(b)) => Delivers(b)
       /\ \A c \in Range(bc'[b].delivered) :
            chan'[c].task = bc'[b].task /\ c \in Range(bc'[b].connections)
    ]_vars

C22_Witness ==
  \E b \in Bcs, c \in Chans :
    /\ bc[b].pc = "done"
    /\ bc[b].delivered # << >>
    /\ chan[c].task # bc[b].task
    /\ chan[c].pc = "listen"
    /\ chan[c].peer
    /\ chan[c].inbox = <<Confirmation(chan[c].task)>>

\* C23: a channel whose send raises during a broadcast is out of the registry
\* when that broadcast ends, the broadcast goes on after the failure and
\* still delivers to the other channels of its snapshot
C23_FailedChannelDropped ==
  [][\A b \in Bcs :
       /\ (bc[b].pc = "send" /\ bc'[b].pc = "done")
            => /\ bc[b].i = Len(bc[b].connections) + 1
               /\ \A c \in Range(bc[b].disconnected) :
                    c \notin Range(Snapshot(active_connections', bc[b].task))
       /\ (SendStep(b) /\ bc[b].disconnected # << >> /\ Reachable(b)) => Delivers(b)
       /\ (bc[b].pc = "send" /\ Len(bc'[b].disconnected) > Len(bc[b].disconnected))
            => bc'[b].pc = "send"
    ]_vars

C23_Witness ==
  \E b \in Bcs :
    /\ bc[b].pc = "done"
    /\ Len(bc[b].connections) = 2
    /\ bc[b].disconnected = <<bc[b].connections[1]>>
    /\ bc[b].delivered = <<bc[b].connections[2]>>

\* C24: the first message a subscriber receives is the subscription
\* confirmation: no broadcast is delivered to a channel before it
C24_ConfirmationFirst ==
  \A c \in Chans :
    chan[c].inbox # << >> => chan[c].inbox[1] = Confirmation(chan[c].task)

\* C25: under every interleaving of connect, disconnect and broadcast_to_task
\* the registry holds exactly the channels connected and not disconnected
\* (each once, no empty list kept); a broadcast overlapped by a disconnect
\* goes on delivering to the channels it can reach; a broadcast that starts
\* after a disconnect completed does not address the disconnected channel
C25_RegistryConsistent ==
  [][/\ \A t \in WsTasks :
          /\ Range(Snapshot(active_connections', t))
               = {c \in Chans : chan'[c].task = t /\ chan'[c].reg /\ ~chan'[c].unreg}
          /\ Len(Snapshot(active_connections', t))
               = Cardinality(Range(Snapshot(active_connections', t)))
          /\ t \in DOMAIN active_connections' => active_connections'[t] # << >>
     /\ \A b \in Bcs :
          /\ (SendStep(b) /\ Reachable(b)
                /\ \E c \in Range(bc[b].connections) : chan[c].unreg)
               => Delivers(b)
          /\ (bc[b].pc = "idle" /\ bc'[b].pc = "send")
               => \A c \in Range(bc'[b].connections) : ~chan[c].unreg
          /\ Range(bc'[b].delivered) \subseteq Range(bc'[b].connections)
    ]_vars

C25_Witness ==
  \E b \in Bcs, c \in Chans :
    /\ bc[b].pc = "done"
    /\ c \in Range(bc[b].connections)
    /\ c \notin Range(bc[b].disconnected)
    /\ chan[c].pc = "done"
    /\ bc[b].delivered # << >>

\* C26: after save_to_workspace(t, p), get_from_workspace(t) returns the
\* previous object of t (empty if none) shallow-merged with p, the keys of p
\* overriding, and the entries of other task ids are unchanged; after
\* delete_workspace(t), get_from_workspace(t) returns None
C26_WorkspaceMerge ==
  LET now == get_from_workspace(redis, rop.task_id)
      old == rop.prev.data
  IN /\ rop.op = "save" =>
          /\ now.found
          /\ DOMAIN now.data = (DOMAIN old) \cup (DOMAIN rop.data)
          /\ \A k \in DOMAIN now.data :
               now.data[k] = IF k \in DOMAIN rop.data THEN rop.data[k] ELSE old[k]
     /\ rop.op = "delete" => ~now.found
     /\ rop.op = "get" => redis = rop.before
     /\ \A u \in RsTasks \ {rop.task_id} :
          get_from_workspace(redis, u) = get_from_workspace(rop.before, u)

C26_Witness ==
  /\ rop.op = "save"
  /\ rop.prev.found
  /\ \E k \in DOMAIN rop.prev.data : k \notin DOMAIN rop.data
  /\ \E k \in DOMAIN rop.data :
       k \in DOMAIN rop.prev.data /\ rop.prev.data[k] # rop.data[k]
  /\ \E u \in RsTasks \ {rop.task_id} : get_from_workspace(redis, u).found

\* the rounds of research_with_retry run for a topic, in order
RoundsOf(topic) == {n \in 1..Len(rs.rounds) : rs.rounds[n].topic = topic}

\* C27 as stated: after the research stage research_results has one entry
\* for every topic of the analysis: the collaborator's result if a call for
\* that topic succeeded within the retry bound, otherwise an error marker
C27_EntryPerTopicAnySuccess ==
  rs.pc = "done" =>
    /\ DOMAIN rs.research_results = Range(rs.topics)
    /\ \A topic \in Range(rs.topics) :
         IF \E n \in RoundsOf(topic) : "result" \in DOMAIN rs.rounds[n].ret
           THEN "result" \in DOMAIN rs.research_results[topic]
           ELSE "failed" \in DOMAIN rs.research_results[topic]

\* C27 (amended): after the research stage research_results has one entry
\* for every distinct topic of the analysis, the outcome of the last
\* research_with_retry round run for it: the collaborator's result if that
\* round succeeded, otherwise the marker of the exception it raised; the
\* stage reaches its return whatever the collaborator does
C27_EntryPerTopicLastRound ==
  /\ rs.pc \in {"idle", "loop", "done"}
  /\ rs.pc = "done" =>
       /\ DOMAIN rs.research_results = Range(rs.topics)
       /\ Len(rs.rounds) = Len(rs.topics)
       /\ \A topic \in Range(rs.topics) :
            LET last == rs.rounds[CHOOSE n \in RoundsOf(topic) :
                                    \A m \in RoundsOf(topic) : m <= n]
            IN rs.research_results[topic] =
                 IF "result" \in DOMAIN last.ret THEN last.ret
                                                 ELSE FailureMarker(last.ret)

C27_Witness ==
  /\ rs.pc = "done"
  /\ \E a, b \in Range(rs.topics) :
       /\ "result" \in DOMAIN rs.research_results[a]
       /\ "failed" \in DOMAIN rs.research_results[b]

\* C28: research_with_retry invokes the tool at most 3 times for one query,
\* returns the result of the first successful attempt, and re-raises the
\* last exception when all 3 attempts fail
C28_RetryBound ==
  /\ Len(rs.log) < 3
  /\ \A n \in 1..Len(rs.rounds) :
       LET r == rs.rounds[n]
           k == Len(r.log)
       IN /\ k <= 3
          /\ \A j \in 1..(k - 1) : r.log[j] = "raise"
          /\ r.log[k] = "ok" => r.ret = ToolResult(r.topic, k)
          /\ r.log[k] = "raise" => (k = 3 /\ r.ret = ToolError(r.topic, 3))

C28_Witness ==
  \E n, m \in 1..Len(rs.rounds) :
    /\ rs.rounds[n].log = <<"raise", "ok">>
    /\ rs.rounds[m].log = <<"raise", "raise", "raise">>

\* the analyzer fails: the model call raises, or its answer is not valid
\* JSON, or is JSON without the required fields
AnalyzerFails(llm) ==
  \/ "raise" \in DOMAIN llm
  \/ LET text == StripFence(llm.content)
     IN \/ Len(text) # 1
        \/ "object" \notin DOMAIN text[1].text
        \/ {"topics", "task_type"} \ DOMAIN text[1].text.object # {}

\* C29: whenever the prompt analyzer fails, analyze returns the keyword-based
\* analysis, with a non-empty topic list and task kind summary
C29_AnalyzerFallback ==
  (an.pc = "done" /\ AnalyzerFails(an.llm)) =>
    /\ an.fallback
    /\ "value" \in DOMAIN an.ret
    /\ an.ret.value.topics.list # << >>
    /\ an.ret.value.task_type.str = "summary"

\* the fallback itself: when it runs, the topic list is non-empty
C29_FallbackTopics ==
  (an.pc = "done" /\ an.fallback) =>
    /\ AnalyzerFails(an.llm)
    /\ an.ret.value.topics.list # << >>
    /\ an.ret.value.task_type.str \in valid_types

\* the analyzer fails and analyze raises
C29_Raises ==
  an.pc = "done" /\ AnalyzerFails(an.llm) /\ "raised" \in DOMAIN an.ret

\* the research of the state writing_node was entered with, and the
\* scratchpad entry of its task
StateResearch == DictGet(wr.state, "research_results", [dict |-> EmptyDict]).dict
WrEntry == get_from_workspace(redis, WrTask)
EntryResearch == DictGet(WrEntry.data, "research_results", [dict |-> EmptyDict]).dict

LogAgents(t) == {db[t].agent_logs[i].agent : i \in 1..Len(db[t].agent_logs)}

\* C31: whenever a task's recorded status is AWAITING_APPROVAL, its activity
\* log holds at least 3 entries, one of them by ResearchAgent and one by
\* WritingAgent
C31_AwaitingHasLog ==
  \A t \in TaskIds :
    (db[t].exists /\ db[t].status = AWAITING_APPROVAL) =>
      /\ Len(db[t].agent_logs) >= 3
      /\ {"ResearchAgent", "WritingAgent"} \subseteq LogAgents(t)

\* C32: whenever a task's recorded status is COMPLETED, its activity log
\* holds at least 5 entries, however the last append of execute_workflow
\* interleaves with resume_workflow
C32_CompletedHasLog ==
  \A t \in TaskIds :
    (db[t].exists /\ db[t].status = COMPLETED) => Len(db[t].agent_logs) >= 5

\* the nodes run in a phase of the graph execution, in order
TraceOf(phase) ==
  LET InPhase(e) == e.phase = phase
      sel == SelectSeq(gr.trace, InPhase)
  IN [i \in 1..Len(sel) |-> sel[i].node]

\* how the resume payload reads: a mapping by its keys, anything else by its
\* truth value with empty feedback
PayloadApproved ==
  IF "scalar" \in DOMAIN gr.payload
    THEN gr.payload.scalar \in {"True", "'yes'", "1"}
    ELSE "approved" \in DOMAIN gr.payload /\ gr.payload.approved

PayloadFeedback ==
  IF "feedback" \in DOMAIN gr.payload THEN gr.payload.feedback ELSE ""

\* C33: on resume exactly one of finalize and failed executes: an approving
\* payload runs finalize, which sets result to the draft and status
\* COMPLETED; any other runs failed, which sets error to the payload's
\* feedback and status FAILED; a payload that is not a mapping counts as
\* approved = its truth value with empty feedback
C33_ResumeRoutes ==
  gr.phase = "resume" =>
    /\ gr.pc \in {"finalize", "failed", END}
    /\ gr.pc = (IF PayloadApproved THEN "finalize" ELSE "failed")
         => TraceOf("resume") = <<"approval">>
    /\ gr.pc = END =>
         IF PayloadApproved
           THEN /\ TraceOf("resume") = <<"approval", "finalize">>
                /\ gr.values.result = gr.interrupt.draft
                /\ gr.values.status = COMPLETED
                /\ "error" \notin DOMAIN gr.values
           ELSE /\ TraceOf("resume") = <<"approval", "failed">>
                /\ gr.values.error = PayloadFeedback
                /\ gr.values.status = FAILED
                /\ "result" \notin DOMAIN gr.values
    /\ gr.pc # END => gr.pc = (IF PayloadApproved THEN "finalize" ELSE "failed")

C33_Witness ==
  /\ gr.pc = END
  /\ "scalar" \in DOMAIN gr.payload
  /\ gr.values.status = COMPLETED

\* the draft the writing stage of this run returned
WrittenDraft == gr.writing.ret.draft

\* C34 as stated: every fresh run executes research, writing and approval in
\* this order and ends suspended at approval with a descriptor carrying the
\* task id and the draft produced by writing, and never runs finalize or failed
C34_FreshRunSuspends ==
  gr.phase = "fresh" =>
    /\ IsPrefix(TraceOf("fresh"), <<"research", "writing", "approval">>)
    /\ gr.pc \in {"research", "writing", "approval", "suspended"}
    /\ gr.pc = "suspended" =>
         /\ TraceOf("fresh") = <<"research", "writing", "approval">>
         /\ gr.interrupt.task_id.str = GrTask
         /\ gr.interrupt.draft = WrittenDraft

\* C34 (amended): every fresh run executes research, then writing, then
\* approval, one after the other; it ends with the exception of research or
\* of writing, or suspended at approval with a descriptor carrying the task
\* id and the draft writing produced in this run; finalize and failed never
\* execute during a fresh run
C34_FreshRunOrder ==
  /\ IsPrefix(TraceOf("fresh"), <<"research", "writing", "approval">>)
  /\ gr.phase = "fresh" =>
       /\ gr.pc \in {"research", "writing", "approval", "suspended", "raised"}
       /\ gr.pc = "research" => TraceOf("fresh") = << >>
       /\ gr.pc = "writing" => TraceOf("fresh") = <<"research">>
       /\ gr.pc = "approval" => TraceOf("fresh") = <<"research", "writing">>
       /\ gr.pc = "raised" => TraceOf("fresh") \in {<<"research">>, <<"research", "writing">>}
       /\ gr.pc = "suspended" =>
            /\ TraceOf("fresh") = <<"research", "writing", "approval">>
            /\ gr.interrupt.task_id.str = GrTask
            /\ gr.interrupt.draft = WrittenDraft

C34_Witness ==
  /\ gr.pc = "suspended"
  /\ gr.interrupt.draft = "draft 2"
  /\ gr.values.draft = "draft 2"

\* C35: when neither the state nor the scratchpad holds research, the
\* writing stage does not raise and does not call the writer, it returns the
\* fixed error draft with status WRITING, and the run goes on to approval
\* and suspends there with that draft
C35_ErrorDraftSuspends ==
  (gr.writing # EmptyDict /\ gr.writing.state = EmptyDict /\ gr.writing.entry = EmptyDict) =>
    /\ ~gr.writing.called
    /\ gr.writing.ret = [draft |-> "Error: No research results available to generate content.",
                         status |-> WRITING]
    /\ gr.phase = "fresh" => gr.pc \in {"approval", "suspended"}
    /\ gr.pc = "approval" => gr.values.draft = gr.writing.ret.draft
    /\ gr.pc = "suspended" => gr.interrupt.draft = gr.writing.ret.draft

C35_Witness ==
  /\ gr.pc = "suspended"
  /\ gr.writing.state = EmptyDict /\ gr.writing.entry = EmptyDict
  /\ gr.interrupt.draft = ErrorDraft

\* C37: for a query containing the flaky marker the first invocation of
\* search_general since the last reset raises and every later one with the
\* same query succeeds and reports its attempt number, whatever was called
\* with other queries in between; a query without the marker never raises
C37_FlakyOnce ==
  tool.last.k > 0 =>
    IF tool.last.query.flaky
      THEN /\ tool.last.k = 1 => tool.last.ret = [raised |-> "RuntimeError"]
           /\ tool.last.k > 1 =>
                /\ "raised" \notin DOMAIN tool.last.ret
                /\ tool.last.ret.attempt = tool.last.k
                /\ tool.last.ret.query = tool.last.query.text
      ELSE /\ "raised" \notin DOMAIN tool.last.ret
           /\ tool.last.ret.query = tool.last.query.text

C37_Witness ==
  /\ tool.last.query.flaky
  /\ tool.last.k = 1
  /\ \E q \in Queries : q # tool.last.query /\ q.flaky /\ tool.since[q] = 2

\* C36: when the research stage is executed again from its entry state and
\* the analyzer and the tool answer as before, the workspace entry after the
\* second execution equals the entry after the first, and every execution
\* writes the entry exactly once
C36_ResearchIdempotent ==
  /\ \A i \in DOMAIN rs.sets : rs.sets[i] = 1
  /\ \A i \in DOMAIN rs.contents : rs.contents[i] = rs.contents[1]

C36_Witness ==
  /\ Len(rs.contents) = 2
  /\ rs.contents[2].found
  /\ "note" \in DOMAIN rs.contents[2].data
  /\ rs.contents[2].data.topics = [list |-> <<"A", "B">>]
  /\ \E t \in Topics : "failed" \in DOMAIN rs.contents[2].data.research_results.dict[t]

\* C38: update_task_status, update_task_result, append_agent_log and get_task
\* called with an id that has no visible row return None and neither create
\* nor change a row; a row created but not yet committed is not touched by
\* them, so a write that comes before the commit is lost
C38_MissingRowIgnored ==
  /\ (/\ dbop.last.op \in {"update_task_status", "update_task_result",
                           "append_agent_log", "get_task"}
      /\ dbop.last.task_id \notin DOMAIN dbop.last.before)
       => /\ dbop.last.ret = None
          /\ dbop.table = dbop.last.before
          /\ dbop.pending = dbop.last.flushed
  /\ \A id \in DOMAIN dbop.pending :
       dbop.pending[id] = Task(id, dbop.pending[id].prompt)

C38_Witness ==
  /\ dbop.last.op \in {"update_task_status", "update_task_result", "append_agent_log"}
  /\ dbop.last.task_id \in DOMAIN dbop.pending
  /\ dbop.last.ret = None

\* C39: no operation of the record store changes the id or the prompt of an
\* existing task; update_task_status leaves result and activity log as they
\* were, append_agent_log leaves status and result as they were
C39_Frame ==
  \A id \in DOMAIN dbop.last.before :
    /\ id \in DOMAIN dbop.table
    /\ dbop.table[id].id = id
    /\ dbop.table[id].prompt = dbop.last.before[id].prompt
    /\ dbop.last.op = "update_task_status" =>
         /\ dbop.table[id].result = dbop.last.before[id].result
         /\ dbop.table[id].agent_logs = dbop.last.before[id].agent_logs
    /\ dbop.last.op = "append_agent_log" =>
         /\ dbop.table[id].status = dbop.last.before[id].status
         /\ dbop.table[id].result = dbop.last.before[id].result

C39_Witness ==
  /\ dbop.last.op = "append_agent_log"
  /\ dbop.last.ret # None
  /\ dbop.last.ret.task.status = COMPLETED
  /\ dbop.last.ret.task.result = "text"
  /\ Len(dbop.last.ret.task.agent_logs) = 1

\* C40: the status recorded for a task is always one of PENDING, RUNNING,
\* AWAITING_APPROVAL, RESUMED, COMPLETED, FAILED: RESEARCHING and WRITING,
\* which the engine's state takes, are never written to the task's row
C40_RecordedStatuses ==
  \A t \in TaskIds :
    db[t].exists =>
      db[t].status \in {PENDING, RUNNING, AWAITING_APPROVAL, RESUMED, COMPLETED, FAILED}

C40_Witness ==
  \E t \in TaskIds, w \in Workers :
    /\ db[t].exists
    /\ db[t].status = AWAITING_APPROVAL
    /\ DictGet(ckpt[w][t].values, "status", NULL) = WRITING

====
